---- MODULE Spec2Model ----
(***************************************************************************)
(* A model of tacky-borders: the border registry (BORDERS) with the worker *)
(* threads of src/utils.rs and their locks, the delay resolution of        *)
(* create_border_for_window, the easing curve of bezier, and the colors,   *)
(* gradient stops and gradient geometry of src/colors.rs.                  *)
(***************************************************************************)
EXTENDS Integers, Sequences, FiniteSets, TLC

(***************************************************************************)
(* Bounds of the model.                                                    *)
(***************************************************************************)
\* Number of calls the event-hook thread makes (each spawns at most one worker).
MaxCalls == 3

\* The tracked windows (HWND values as isize).
Windows == {1, 2}

\* Thread ids of the spawned workers; the event-hook thread itself is 0.
Tids == 1..MaxCalls

\* Overlay window handles CreateWindowExW can return; 0 is the NULL handle.
Handles == 1..MaxCalls

(***************************************************************************)
(* Option<T> and HashMap helpers.                                          *)
(***************************************************************************)
None == <<>>

Some(v) == <<v>>

unwrap_or(o, d) == IF o = None THEN d ELSE o[1]

contains_key(m, k) == k \in DOMAIN m

get(m, k) == IF k \in DOMAIN m THEN Some(m[k]) ELSE None

insert(m, k, v) == [x \in (DOMAIN m) \cup {k} |-> IF x = k THEN v ELSE m[x]]

remove(m, k) == [x \in (DOMAIN m) \ {k} |-> m[x]]

(***************************************************************************)
(* Window messages.                                                        *)
(***************************************************************************)
WM_NCDESTROY == "WM_NCDESTROY"

WM_APP_SHOWUNCLOAKED == "WM_APP_SHOWUNCLOAKED"

WM_APP_HIDECLOAKED == "WM_APP_HIDECLOAKED"

(***************************************************************************)
(* State.                                                                  *)
(*   BORDERS          the registry: tracked window -> overlay handle       *)
(*   bordersLock      the set of threads holding the BORDERS mutex         *)
(*   CONFIG           window rules and global settings                     *)
(*   INITIAL_WINDOWS  the windows present at process start                 *)
(*   threads          the spawned worker threads, by thread id; a worker's *)
(*                    id is the number of the call that spawned it         *)
(*   calls            the calls the event-hook thread has made, in order;  *)
(*                    a hide or show call with whether the window had an   *)
(*                    entry when it was made                               *)
(*   hook             the event-hook thread inside show_border_for_window  *)
(*   last_show        what show_border_for_window did, until the next call *)
(*   queue            the messages posted to each overlay window, in order,*)
(*                    each with the number of the call it stems from       *)
(*   nextHandle       the next handle CreateWindowExW hands out            *)
(*   arg, res         input and result of the pure functions               *)
(***************************************************************************)
VARIABLES BORDERS, bordersLock, CONFIG, INITIAL_WINDOWS,
          threads, calls, hook, last_show, queue, nextHandle, arg, res

vars == <<BORDERS, bordersLock, CONFIG, INITIAL_WINDOWS,
          threads, calls, hook, last_show, queue, nextHandle, arg, res>>

\* CONFIG and INITIAL_WINDOWS are written by no operation of utils.rs.
cfgVars == <<CONFIG, INITIAL_WINDOWS>>

pureVars == <<arg, res>>

registryVars == <<BORDERS, bordersLock, threads, calls, hook, last_show,
                  queue, nextHandle>>

(***************************************************************************)
(* Delay resolution (create_border_for_window).                            *)
(***************************************************************************)
DefaultInitializeDelay == 250

DefaultUnminimizeDelay == 200

\* A variant that prefers the global value to the window rule's.
InitializeDelaySwapped(is_initial, rule, global) ==
    IF is_initial
    THEN 0
    ELSE unwrap_or(global.initialize_delay,
                   unwrap_or(rule.initialize_delay, DefaultInitializeDelay))

InitializeDelay(is_initial, rule, global) ==
    IF is_initial
    THEN 0
    ELSE unwrap_or(rule.initialize_delay,
                   unwrap_or(global.initialize_delay, DefaultInitializeDelay))

UnminimizeDelay(rule, global) ==
    unwrap_or(rule.unminimize_delay,
              unwrap_or(global.unminimize_delay, DefaultUnminimizeDelay))

(***************************************************************************)
(* Threads.                                                                *)
(***************************************************************************)
NoThread ==
    [kind |-> "none", w |-> 0, pc |-> "none", found |-> None,
     border_window |-> 0, initialize_delay |-> 0, unminimize_delay |-> 0]

NewThread(kind, w, pc) == [NoThread EXCEPT !.kind = kind, !.w = w, !.pc = pc]

\* thread::spawn, in call number n of the event-hook thread.
Spawn(n, kind, w, pc) == [threads EXCEPT ![n] = NewThread(kind, w, pc)]

Message(msg, call) == [msg |-> msg, call |-> call]

\* PostMessageW: appends to the window's queue; a post to the NULL handle
\* reaches no overlay.
PostMessageW(q, hwnd, msg, call) ==
    IF hwnd \in Handles
    THEN [q EXCEPT ![hwnd] = Append(q[hwnd], Message(msg, call))]
    ELSE q

DefaultRule ==
    [enabled |-> None, initialize_delay |-> None, unminimize_delay |-> None]

DefaultGlobal == [initialize_delay |-> None, unminimize_delay |-> None]

\* The configurations the registry model starts from.
Configs ==
    { [rules |-> [w \in Windows |-> DefaultRule], global |-> DefaultGlobal],
      [rules |-> [w \in Windows |->
                    IF w = 2
                    THEN [DefaultRule EXCEPT !.enabled = Some(FALSE)]
                    ELSE [DefaultRule EXCEPT !.initialize_delay = Some(100)]],
       global |-> [DefaultGlobal EXCEPT !.unminimize_delay = Some(300)]] }

\* No show_border_for_window has returned since the last call.
NoShow == [call |-> 0]

Init ==
    /\ BORDERS = <<>>
    /\ bordersLock = {}
    /\ CONFIG \in Configs
    /\ INITIAL_WINDOWS = {1}
    /\ threads = [t \in Tids |-> NoThread]
    /\ calls = <<>>
    /\ hook = [pc |-> "idle", w |-> 0, found |-> None]
    /\ last_show = NoShow
    /\ queue = [h \in Handles |-> <<>>]
    /\ nextHandle = 1
    /\ arg = <<>>
    /\ res = <<>>

(***************************************************************************)
(* The event-hook thread: the calls into utils.rs.                         *)
(***************************************************************************)
CanCall == hook.pc = "idle" /\ Len(calls) < MaxCalls

\* create_border_for_window: spawns the worker and returns Ok(()).
CallCreate(w) ==
    /\ CanCall
    /\ calls' = Append(calls, [op |-> "create", w |-> w])
    /\ threads' = Spawn(Len(calls) + 1, "create", w, "get_window_rule")
    /\ last_show' = NoShow
    /\ UNCHANGED <<BORDERS, bordersLock, cfgVars, hook, queue, nextHandle, pureVars>>

\* destroy_border_for_window: spawns the worker and returns Ok(()).
CallDestroy(w) ==
    /\ CanCall
    /\ calls' = Append(calls, [op |-> "destroy", w |-> w])
    /\ threads' = Spawn(Len(calls) + 1, "destroy", w, "lock_borders")
    /\ last_show' = NoShow
    /\ UNCHANGED <<BORDERS, bordersLock, cfgVars, hook, queue, nextHandle, pureVars>>

\* hide_border_for_window: spawns the worker and returns true.
CallHide(w) ==
    /\ CanCall
    /\ calls' = Append(calls, [op |-> "hide", w |-> w,
                                registered |-> contains_key(BORDERS, w)])
    /\ threads' = Spawn(Len(calls) + 1, "hide", w, "get_border")
    /\ last_show' = NoShow
    /\ UNCHANGED <<BORDERS, bordersLock, cfgVars, hook, queue, nextHandle, pureVars>>

\* get_border_from_window: BORDERS.lock(), get, drop.
get_border_from_window(hwnd) == get(BORDERS, hwnd)

\* show_border_for_window, first half: get_border_from_window on the
\* event-hook thread.
ShowLookup(w) ==
    /\ CanCall
    /\ bordersLock = {}
    /\ calls' = Append(calls, [op |-> "show", w |-> w,
                                registered |-> contains_key(BORDERS, w)])
    /\ hook' = [pc |-> "show", w |-> w, found |-> get_border_from_window(w)]
    /\ last_show' = NoShow
    /\ UNCHANGED <<BORDERS, bordersLock, cfgVars, threads, queue, nextHandle, pureVars>>

\* A variant that ignores is_cloaked.
ShowCreatesIgnoringCloak(visible, cloaked, filtered) == visible /\ ~filtered

\* The condition under which show_border_for_window creates a border.
ShowCreates(visible, cloaked, filtered) == visible /\ ~cloaked /\ ~filtered

\* <<is_window_visible, is_cloaked, has_filtered_style>> as the window reports them.
WindowAttrs ==
    { <<TRUE, FALSE, FALSE>>, <<FALSE, FALSE, FALSE>>,
      <<TRUE, TRUE, FALSE>>, <<TRUE, FALSE, TRUE>> }

\* show_border_for_window, second half: post to the border found, or create one.
ShowAct ==
    /\ hook.pc = "show"
    /\ hook' = [pc |-> "idle", w |-> 0, found |-> None]
    /\ IF hook.found # None
       THEN /\ queue' = PostMessageW(queue, hook.found[1], WM_APP_SHOWUNCLOAKED,
                                     Len(calls))
            /\ last_show' = [call |-> Len(calls), w |-> hook.w,
                             found |-> hook.found, ret |-> TRUE, attrs |-> <<>>]
            /\ UNCHANGED threads
       ELSE \E a \in WindowAttrs :
            /\ queue' = queue
            /\ threads' = IF ShowCreates(a[1], a[2], a[3])
                          THEN Spawn(Len(calls), "create", hook.w, "get_window_rule")
                          ELSE threads
            /\ last_show' = [call |-> Len(calls), w |-> hook.w,
                             found |-> hook.found, ret |-> FALSE, attrs |-> a]
    /\ UNCHANGED <<BORDERS, bordersLock, cfgVars, calls, nextHandle, pureVars>>

(***************************************************************************)
(* The worker of create_border_for_window.                                 *)
(***************************************************************************)
At(t, kind, pc) == threads[t].kind = kind /\ threads[t].pc = pc

\* From get_window_rule to drop(config): the enabled check with its early
\* return, and the settings read under the CONFIG lock. CONFIG is written by
\* no modelled operation, so the two critical sections are one step.
CreateReadConfig(t) ==
    /\ At(t, "create", "get_window_rule")
    /\ LET window_rule == CONFIG.rules[threads[t].w]
       IN threads' = IF window_rule.enabled = Some(FALSE)
                     THEN [threads EXCEPT ![t].pc = "returned"]
                     ELSE [threads EXCEPT
                             ![t].initialize_delay =
                                 InitializeDelay(threads[t].w \in INITIAL_WINDOWS,
                                                 window_rule, CONFIG.global),
                             ![t].unminimize_delay =
                                 UnminimizeDelay(window_rule, CONFIG.global),
                             ![t].pc = "lock_borders"]
    /\ UNCHANGED <<BORDERS, bordersLock, cfgVars, calls, hook, last_show, queue,
                   nextHandle, pureVars>>

\* A check-then-act variant: the lock is dropped right after contains_key.
CreateLockBordersDropped(t) ==
    /\ At(t, "create", "lock_borders")
    /\ bordersLock = {}
    /\ bordersLock' = {}
    /\ threads' = [threads EXCEPT ![t].pc =
                     IF contains_key(BORDERS, threads[t].w)
                     THEN "returned" ELSE "create_border_window"]
    /\ UNCHANGED <<BORDERS, cfgVars, calls, hook, last_show, queue, nextHandle,
                   pureVars>>

\* BORDERS.lock() and the contains_key check with its early return.
CreateLockBorders(t) ==
    /\ At(t, "create", "lock_borders")
    /\ bordersLock = {}
    /\ IF contains_key(BORDERS, threads[t].w)
       THEN /\ bordersLock' = {}
            /\ threads' = [threads EXCEPT ![t].pc = "returned"]
       ELSE /\ bordersLock' = {t}
            /\ threads' = [threads EXCEPT ![t].pc = "create_border_window"]
    /\ UNCHANGED <<BORDERS, cfgVars, calls, hook, last_show, queue, nextHandle,
                   pureVars>>

\* let _ = border.create_border_window(hinstance): on Ok the border holds its
\* new overlay window, on Err (the Result is discarded) border.border_window
\* keeps its default, the NULL handle. Then borders_hashmap.insert(..) and
\* drop(borders_hashmap).
CreateBorderWindow(t) ==
    /\ At(t, "create", "create_border_window")
    /\ \/ /\ nextHandle' = nextHandle + 1
          /\ threads' = [threads EXCEPT ![t].border_window = nextHandle,
                                        ![t].pc = "init"]
          /\ BORDERS' = insert(BORDERS, threads[t].w, nextHandle)
       \/ /\ nextHandle' = nextHandle
          /\ threads' = [threads EXCEPT ![t].pc = "init"]
          /\ BORDERS' = insert(BORDERS, threads[t].w, threads[t].border_window)
    /\ bordersLock' = bordersLock \ {t}
    /\ UNCHANGED <<cfgVars, calls, hook, last_show, queue, pureVars>>

\* border.init(initialize_delay) returns, with an error or when its message
\* loop ends; then drop(border) and the thread ends.
InitReturns(t) ==
    /\ At(t, "create", "init")
    /\ threads' = [threads EXCEPT ![t].pc = "exited"]
    /\ UNCHANGED <<BORDERS, bordersLock, cfgVars, calls, hook, last_show, queue,
                   nextHandle, pureVars>>

(***************************************************************************)
(* The worker of destroy_border_for_window.                                *)
(***************************************************************************)
\* A variant that posts WM_NCDESTROY and forgets to remove the entry.
DestroyKeepsEntry(t) ==
    /\ At(t, "destroy", "lock_borders")
    /\ bordersLock = {}
    /\ bordersLock' = {}
    /\ threads' = [threads EXCEPT ![t].pc = "returned",
                                  ![t].found = get(BORDERS, threads[t].w)]
    /\ queue' = IF contains_key(BORDERS, threads[t].w)
                THEN PostMessageW(queue, BORDERS[threads[t].w], WM_NCDESTROY, t)
                ELSE queue
    /\ UNCHANGED <<BORDERS, cfgVars, calls, hook, last_show, nextHandle, pureVars>>

\* The whole worker, all of it under the BORDERS lock: get with its early
\* return, PostMessageW(WM_NCDESTROY), remove, drop(borders_hashmap).
Destroy(t) ==
    /\ At(t, "destroy", "lock_borders")
    /\ bordersLock = {}
    /\ bordersLock' = {}
    /\ threads' = [threads EXCEPT ![t].pc = "returned",
                                  ![t].found = get(BORDERS, threads[t].w)]
    /\ IF contains_key(BORDERS, threads[t].w)
       THEN /\ queue' = PostMessageW(queue, BORDERS[threads[t].w], WM_NCDESTROY, t)
            /\ BORDERS' = remove(BORDERS, threads[t].w)
       ELSE UNCHANGED <<queue, BORDERS>>
    /\ UNCHANGED <<cfgVars, calls, hook, last_show, nextHandle, pureVars>>

(***************************************************************************)
(* The worker of hide_border_for_window.                                   *)
(***************************************************************************)
\* get_border_from_window on the worker thread.
HideGetBorder(t) ==
    /\ At(t, "hide", "get_border")
    /\ bordersLock = {}
    /\ threads' = [threads EXCEPT ![t].found = get_border_from_window(threads[t].w),
                                  ![t].pc = "post"]
    /\ UNCHANGED <<BORDERS, bordersLock, cfgVars, calls, hook, last_show, queue,
                   nextHandle, pureVars>>

\* PostMessageW(WM_APP_HIDECLOAKED) if a border was found.
HidePost(t) ==
    /\ At(t, "hide", "post")
    /\ threads' = [threads EXCEPT ![t].pc = "returned"]
    /\ queue' = IF threads[t].found # None
                THEN PostMessageW(queue, threads[t].found[1], WM_APP_HIDECLOAKED, t)
                ELSE queue
    /\ UNCHANGED <<BORDERS, bordersLock, cfgVars, calls, hook, last_show,
                   nextHandle, pureVars>>

Next ==
    \/ \E w \in Windows : CallCreate(w)
    \/ \E w \in Windows : CallDestroy(w)
    \/ \E w \in Windows : CallHide(w)
    \/ \E w \in Windows : ShowLookup(w)
    \/ ShowAct
    \/ \E t \in Tids : CreateReadConfig(t)
    \/ \E t \in Tids : CreateLockBorders(t)
    \/ \E t \in Tids : CreateBorderWindow(t)
    \/ \E t \in Tids : InitReturns(t)
    \/ \E t \in Tids : Destroy(t)
    \/ \E t \in Tids : HideGetBorder(t)
    \/ \E t \in Tids : HidePost(t)

Spec == Init /\ [][Next]_vars

(***************************************************************************)
(* Claims about the registry.                                              *)
(***************************************************************************)
CreateThreads(w) == {t \in Tids : threads[t].kind = "create" /\ threads[t].w = w}

DestroyThreads(w) == {t \in Tids : threads[t].kind = "destroy" /\ threads[t].w = w}

\* The create workers for w that created an overlay and inserted its entry.
Creators(w) == {t \in CreateThreads(w) : threads[t].pc \in {"init", "exited"}}

\* The destroy workers for w that found an entry and removed it.
Removers(w) == {t \in DestroyThreads(w) :
                  threads[t].pc = "returned" /\ threads[t].found # None}

RuleEnabled(w) == CONFIG.rules[w].enabled # Some(FALSE)

C2_NoLockDuringCreation ==
    \A t \in Tids : At(t, "create", "create_border_window") => bordersLock = {}

\* The create and destroy workers for w have finished their registry work
\* and the event-hook thread is not inside show_border_for_window.
Settled(w) ==
    /\ hook.pc = "idle"
    /\ \A t \in CreateThreads(w) : threads[t].pc \in {"returned", "init", "exited"}
    /\ \A t \in DestroyThreads(w) : threads[t].pc = "returned"

\* Call i destroys w and no later call requests a creation for w.
DestroyIsLast(w, i) ==
    /\ calls[i] = [op |-> "destroy", w |-> w]
    /\ \A j \in DOMAIN calls : j > i => j \notin CreateThreads(w)

\* C3 as stated, as a final result: once a destroy for w was called with no
\* creation for w requested after it and the workers have run, the registry
\* holds no entry for w.
C3_DestroyIsTerminal ==
    \A w \in Windows :
        (Settled(w) /\ \E i \in DOMAIN calls : DestroyIsLast(w, i))
        => ~contains_key(BORDERS, w)

LifecycleMsgs == {WM_APP_SHOWUNCLOAKED, WM_APP_HIDECLOAKED}

\* Call n is a hide or show of a window that had an entry when it was made.
LifecycleCall(n) ==
    /\ n \in DOMAIN calls
    /\ calls[n].op \in {"hide", "show"}
    /\ calls[n].registered

\* C4 as stated: of two hide or show calls on a registered window, the
\* message of the earlier call is in the overlay's queue before the message
\* of the later one.
C4_CallOrderKept ==
    \A h \in Handles : \A i, j \in DOMAIN queue[h] :
        ( /\ i < j
          /\ queue[h][i].msg \in LifecycleMsgs
          /\ queue[h][j].msg \in LifecycleMsgs
          /\ LifecycleCall(queue[h][i].call)
          /\ LifecycleCall(queue[h][j].call)
          /\ calls[queue[h][i].call].w = calls[queue[h][j].call].w )
        => queue[h][i].call < queue[h][j].call

\* The messages in overlay hwnd's queue that stem from call n.
PostedBy(n, hwnd) == {i \in DOMAIN queue[hwnd] : queue[hwnd][i].call = n}

DestroysPosted(hwnd) ==
    {i \in DOMAIN queue[hwnd] : queue[hwnd][i].msg = WM_NCDESTROY}

C5_State ==
    /\ \A h \in Handles :
          /\ Cardinality(DestroysPosted(h)) <= 1
          /\ Cardinality({t \in Tids : /\ threads[t].kind = "destroy"
                                       /\ threads[t].pc = "returned"
                                       /\ threads[t].found = Some(h)})
                = Cardinality(DestroysPosted(h))
          /\ DestroysPosted(h) # {} => \A w \in DOMAIN BORDERS : BORDERS[w] # h
    /\ \A t \in Tids :
          (threads[t].kind = "destroy" /\ threads[t].pc = "returned")
          => \A h \in Handles :
                Cardinality(PostedBy(t, h)) =
                    (IF threads[t].found = Some(h) THEN 1 ELSE 0)

C5_Step ==
    \A t \in Tids :
        (At(t, "destroy", "lock_borders") /\ threads'[t].pc = "returned")
        => IF contains_key(BORDERS, threads[t].w)
           THEN BORDERS' = remove(BORDERS, threads[t].w)
           ELSE BORDERS' = BORDERS /\ queue' = queue

\* C5: a destroy that finds no entry posts nothing and leaves the registry
\* unchanged; however many destroy workers run, each overlay gets at most one
\* WM_NCDESTROY, one per removal of its entry, and none while it is registered.
C5_DestroyOnce == [](C5_State) /\ [][C5_Step]_vars

\* Two destroy workers ran on one registered window: one found the overlay,
\* the other found nothing.
C5_Witness ==
    \E w \in Windows : \E t1, t2 \in DestroyThreads(w) : \E h \in Handles :
        /\ threads[t1].pc = "returned" /\ threads[t1].found = Some(h)
        /\ threads[t2].pc = "returned" /\ threads[t2].found = None
        /\ t1 < t2
        /\ Cardinality(DestroysPosted(h)) = 1

\* C6 as stated: every entry maps its window to a successfully created
\* overlay whose actor thread is alive, and no entry is left for an actor
\* thread that has ended.
C6_EntryOnlyForLiveActor ==
    \A w \in DOMAIN BORDERS :
        \E t \in CreateThreads(w) :
            /\ threads[t].pc = "init"
            /\ threads[t].border_window = BORDERS[w]
            /\ BORDERS[w] \in Handles

DelayOptions == {None, Some(0), Some(100), Some(500)}

\* Window 1 has a rule with any delay settings, window 2 the default rule.
DelayConfigs ==
    { [rules |-> [w \in Windows |->
                    IF w = 1
                    THEN [DefaultRule EXCEPT !.initialize_delay = ri,
                                             !.unminimize_delay = ru]
                    ELSE DefaultRule],
       global |-> [initialize_delay |-> gi, unminimize_delay |-> gu]] :
      ri \in DelayOptions, ru \in DelayOptions,
      gi \in DelayOptions, gu \in DelayOptions }

InitDelay ==
    /\ BORDERS = <<>>
    /\ bordersLock = {}
    /\ CONFIG \in DelayConfigs
    /\ INITIAL_WINDOWS \in {{}, {1}}
    /\ threads = [t \in Tids |-> NoThread]
    /\ calls = <<>>
    /\ hook = [pc |-> "idle", w |-> 0, found |-> None]
    /\ last_show = NoShow
    /\ queue = [h \in Handles |-> <<>>]
    /\ nextHandle = 1
    /\ arg = <<>>
    /\ res = <<>>

\* create_border_for_window up to drop(config).
NextDelay ==
    \/ \E w \in Windows : CallCreate(w)
    \/ \E t \in Tids : CreateReadConfig(t)

SpecDelay == InitDelay /\ [][NextDelay]_vars

\* C8: the worker's initialize_delay is 0 for a window of INITIAL_WINDOWS
\* whatever is configured, otherwise the window rule's value if set, else the
\* global value if set, else 250; its unminimize_delay is the window rule's
\* value if set, else the global value if set, else 200.
C8_DelayResolution ==
    \A t \in Tids :
        At(t, "create", "lock_borders") =>
            LET w      == threads[t].w
                rule   == CONFIG.rules[w]
                global == CONFIG.global
                i      == threads[t].initialize_delay
                u      == threads[t].unminimize_delay
            IN /\ w \in INITIAL_WINDOWS => i = 0
               /\ (w \notin INITIAL_WINDOWS /\ rule.initialize_delay # None)
                     => i = rule.initialize_delay[1]
               /\ ( /\ w \notin INITIAL_WINDOWS
                    /\ rule.initialize_delay = None
                    /\ global.initialize_delay # None )
                     => i = global.initialize_delay[1]
               /\ ( /\ w \notin INITIAL_WINDOWS
                    /\ rule.initialize_delay = None
                    /\ global.initialize_delay = None )
                     => i = 250
               /\ rule.unminimize_delay # None => u = rule.unminimize_delay[1]
               /\ (rule.unminimize_delay = None /\ global.unminimize_delay # None)
                     => u = global.unminimize_delay[1]
               /\ (rule.unminimize_delay = None /\ global.unminimize_delay = None)
                     => u = 200

\* A worker resolved the delays of a window whose rule and global settings
\* are both set and differ, the window not being an initial one.
C8_Witness ==
    \E t \in Tids :
        /\ At(t, "create", "lock_borders")
        /\ threads[t].w \notin INITIAL_WINDOWS
        /\ CONFIG.rules[threads[t].w].initialize_delay = Some(100)
        /\ CONFIG.global.initialize_delay = Some(500)
        /\ CONFIG.rules[threads[t].w].unminimize_delay = None
        /\ CONFIG.global.unminimize_delay = Some(0)
        /\ threads[t].initialize_delay = 100
        /\ threads[t].unminimize_delay = 0

(***************************************************************************)
(* f32: IEEE 754 binary32 values as their three fields, with the           *)
(* operations of src/colors.rs rounded to nearest, ties to even.           *)
(*   s  the sign bit, e  the biased exponent (0..255), f  the fraction     *)
(*   (0 .. 2^23 - 1).  Every NaN is kept as the one value NAN.             *)
(***************************************************************************)
F32(s, e, f) == [s |-> s, e |-> e, f |-> f]

NAN == F32(0, 255, 4194304)

INFINITY(s) == F32(s, 255, 0)

Zero(s) == F32(s, 0, 0)

\* f32::MAX, 0x7F7FFFFF.
MAX == F32(0, 254, 8388607)

\* std::f32::consts::PI, 0x40490FDB.
PI == F32(0, 128, 4788187)

is_nan(x) == x.e = 255 /\ x.f # 0

is_infinite(x) == x.e = 255 /\ x.f = 0

IsZero(x) == x.e = 0 /\ x.f = 0

\* The value of a finite x is Sig(x) * 2^Exp(x).
Sig(x) == IF x.e = 0 THEN x.f ELSE x.f + 8388608

Exp(x) == (IF x.e = 0 THEN 1 ELSE x.e) - 150

\* The magnitude's bit pattern, and the total order of the non-NaN values.
Mag(x) == x.e * 8388608 + x.f

Ord(x) == IF x.s = 0 THEN Mag(x) ELSE 0 - Mag(x)

\* ==, < and <= of f32: false whenever a NaN is involved.
Eq(x, y) == ~is_nan(x) /\ ~is_nan(y) /\ Ord(x) = Ord(y)

Lt(x, y) == ~is_nan(x) /\ ~is_nan(y) /\ Ord(x) < Ord(y)

Le(x, y) == ~is_nan(x) /\ ~is_nan(y) /\ Ord(x) <= Ord(y)

\* The number of bits of n, for 0 <= n < 2^30.
BitLen(n) == CHOOSE k \in 0..30 : n < 2^k /\ (k = 0 \/ n >= 2^(k - 1))

\* The f32 nearest to (-1)^s * sig * 2^exp, ties to even; sticky says that
\* the exact value lies strictly between sig and sig + 1 (then sig has at
\* least 26 bits).
RoundPack(s, sig, exp, sticky) ==
    IF sig = 0
    THEN Zero(s)
    ELSE LET n     == BitLen(sig)
             E     == IF exp + n - 24 < -149 THEN -149 ELSE exp + n - 24
             shift == E - exp
         IN IF shift > 30
            THEN Zero(s)
            ELSE LET q    == IF shift <= 0 THEN sig * 2^(0 - shift) ELSE sig \div 2^shift
                     r    == IF shift <= 0 THEN 0 ELSE sig % 2^shift
                     half == IF shift <= 0 THEN 1 ELSE 2^(shift - 1)
                     up   == /\ shift > 0
                             /\ \/ r > half
                                \/ r = half /\ (sticky \/ q % 2 = 1)
                     q1   == IF up THEN q + 1 ELSE q
                     q2   == IF q1 = 16777216 THEN 8388608 ELSE q1
                     E2   == IF q1 = 16777216 THEN E + 1 ELSE E
                 IN IF q2 < 8388608
                    THEN F32(s, 0, q2)
                    ELSE IF E2 + 150 >= 255
                         THEN INFINITY(s)
                         ELSE F32(s, E2 + 150, q2 - 8388608)

\* A finite nonzero x with its significand shifted up to 24 bits.
NormSig(x) == Sig(x) * 2^(24 - BitLen(Sig(x)))

NormExp(x) == Exp(x) - (24 - BitLen(Sig(x)))

Xor(s, t) == IF s = t THEN 0 ELSE 1

\* Unary minus.
Neg(x) == IF is_nan(x) THEN NAN ELSE F32(1 - x.s, x.e, x.f)

\* f32::abs
abs(x) == IF is_nan(x) THEN NAN ELSE F32(0, x.e, x.f)

\* f32::signum: 1.0 for a positive sign (+0.0 included), -1.0 for a negative
\* one, NaN for NaN.
signum(x) == IF is_nan(x) THEN NAN ELSE F32(x.s, 127, 0)

\* x * y. The 48-bit product of the significands is built from 12-bit halves.
Mul(x, y) ==
    LET s == Xor(x.s, y.s)
    IN IF is_nan(x) \/ is_nan(y) THEN NAN
       ELSE IF is_infinite(x) \/ is_infinite(y)
            THEN (IF IsZero(x) \/ IsZero(y) THEN NAN ELSE INFINITY(s))
       ELSE IF IsZero(x) \/ IsZero(y) THEN Zero(s)
       ELSE LET a    == NormSig(x)
                c    == NormSig(y)
                a1   == a \div 4096
                a0   == a % 4096
                c1   == c \div 4096
                c0   == c % 4096
                mid  == a1 * c0 + a0 * c1
                low  == a0 * c0 + (mid % 4096) * 4096
                high == a1 * c1 + mid \div 4096 + low \div 16777216
                lo24 == low % 16777216
            IN RoundPack(s, high * 64 + lo24 \div 262144,
                         NormExp(x) + NormExp(y) + 18, lo24 % 262144 # 0)

\* Long division: n more quotient bits of r / d appended to q.
RECURSIVE DivBits(_, _, _, _)
DivBits(q, r, d, n) ==
    IF n = 0
    THEN <<q, r>>
    ELSE IF 2 * r >= d
         THEN DivBits(2 * q + 1, 2 * r - d, d, n - 1)
         ELSE DivBits(2 * q, 2 * r, d, n - 1)

\* x / y
Div(x, y) ==
    LET s == Xor(x.s, y.s)
    IN IF is_nan(x) \/ is_nan(y) THEN NAN
       ELSE IF is_infinite(x)
            THEN (IF is_infinite(y) THEN NAN ELSE INFINITY(s))
       ELSE IF is_infinite(y) THEN Zero(s)
       ELSE IF IsZero(y)
            THEN (IF IsZero(x) THEN NAN ELSE INFINITY(s))
       ELSE IF IsZero(x) THEN Zero(s)
       ELSE LET a  == NormSig(x)
                d  == NormSig(y)
                q0 == IF a >= d THEN 1 ELSE 0
                qr == DivBits(q0, a - q0 * d, d, 26)
            IN RoundPack(s, qr[1], NormExp(x) - NormExp(y) - 26, qr[2] # 0)

\* n shifted right by d bits, the bits shifted out kept as a set lowest bit.
ShiftRightJam(n, d) ==
    IF d > 30
    THEN (IF n # 0 THEN 1 ELSE 0)
    ELSE LET q == n \div 2^d
         IN IF n % 2^d # 0 /\ q % 2 = 0 THEN q + 1 ELSE q

\* x + y
Add(x, y) ==
    IF is_nan(x) \/ is_nan(y) THEN NAN
    ELSE IF is_infinite(x)
         THEN (IF is_infinite(y) /\ x.s # y.s THEN NAN ELSE x)
    ELSE IF is_infinite(y) THEN y
    ELSE IF IsZero(x) /\ IsZero(y) THEN (IF x.s = y.s THEN x ELSE Zero(0))
    ELSE IF IsZero(x) THEN y
    ELSE IF IsZero(y) THEN x
    ELSE LET big   == IF Mag(x) >= Mag(y) THEN x ELSE y
             small == IF Mag(x) >= Mag(y) THEN y ELSE x
             sa    == Sig(big) * 8
             sb    == ShiftRightJam(Sig(small) * 8, Exp(big) - Exp(small))
             sum   == IF big.s = small.s THEN sa + sb ELSE sa - sb
         IN IF sum = 0 THEN Zero(0) ELSE RoundPack(big.s, sum, Exp(big) - 3, FALSE)

\* x - y
Sub(x, y) == Add(x, Neg(y))

\* (r * 2^n) mod d, for r < 2^24, six bits at a time.
RECURSIVE ShiftMod(_, _, _)
ShiftMod(r, d, n) ==
    IF n <= 6 THEN (r * 2^n) % d ELSE ShiftMod((r * 64) % d, d, n - 6)

\* x % y (fmod): exact, with the sign of x.
Rem(x, y) ==
    IF is_nan(x) \/ is_nan(y) \/ is_infinite(x) \/ IsZero(y) THEN NAN
    ELSE IF is_infinite(y) \/ Mag(x) < Mag(y) THEN x
    ELSE RoundPack(x.s, ShiftMod(Sig(x), Sig(y), Exp(x) - Exp(y)), Exp(y), FALSE)

\* The f32 of a natural number below 2^30.
FromNat(n) == RoundPack(0, n, 0, FALSE)

\* f32::sin and f32::cos of the radians the model's angles convert to,
\* correctly rounded, by the bit pattern of |x|: <<sin |x|, cos |x|>>.
SinCosTable ==
       1057360530 :> <<F32(0, 126, 0), F32(0, 126, 6140887)>>
    @@ 1061752795 :> <<F32(0, 126, 3474675), F32(0, 126, 3474675)>>
    @@ 1065749138 :> <<F32(0, 126, 6140888), F32(0, 125, 8388607)>>
    @@ 1070141403 :> <<F32(0, 127, 0), F32(1, 102, 3915054)>>
    @@ 1074137746 :> <<F32(0, 126, 6140887), F32(1, 126, 1)>>
    @@ 1075235812 :> <<F32(0, 126, 3474675), F32(1, 126, 3474675)>>
    @@ 1076333879 :> <<F32(0, 125, 8388602), F32(1, 126, 6140889)>>
    @@ 1078530011 :> <<F32(1, 103, 3915054), F32(1, 127, 0)>>
    @@ 1080726144 :> <<F32(1, 126, 3), F32(1, 126, 6140885)>>
    @@ 1081824209 :> <<F32(1, 126, 3474674), F32(1, 126, 3474676)>>
    @@ 1082526354 :> <<F32(1, 126, 6140888), F32(1, 125, 8388605)>>
    @@ 1083624420 :> <<F32(1, 127, 0), F32(0, 100, 5037614)>>
    @@ 1084722487 :> <<F32(1, 126, 6140884), F32(0, 126, 6)>>
    @@ 1085271519 :> <<F32(1, 126, 3474677), F32(0, 126, 3474673)>>
    @@ 1085820553 :> <<F32(1, 125, 8388600), F32(0, 126, 6140890)>>
    @@ 1086918619 :> <<F32(0, 104, 3915054), F32(0, 127, 0)>>
    @@ 1088565719 :> <<F32(0, 126, 3474681), F32(0, 126, 3474669)>>
    @@ 1090212817 :> <<F32(0, 127, 0), F32(0, 104, 1397638)>>
    @@ 1092013028 :> <<F32(1, 101, 5037614), F32(1, 127, 0)>>
    @@ 1093660127 :> <<F32(1, 127, 0), F32(1, 105, 1817207)>>
    @@ 1095307227 :> <<F32(0, 105, 3915054), F32(0, 127, 0)>>
    @@ 1198878884 :> <<F32(0, 126, 3500213), F32(0, 126, 3449082)>>
    @@ 1053364187 :> <<F32(0, 125, 4452118), F32(0, 126, 7111518)>>

\* f32::sin: odd, sin(+-0) = +-0, NaN for an infinity or a NaN.
sin(x) ==
    IF is_nan(x) \/ is_infinite(x) THEN NAN
    ELSE IF IsZero(x) THEN x
    ELSE IF x.s = 1 THEN Neg(SinCosTable[Mag(x)][1]) ELSE SinCosTable[Mag(x)][1]

\* f32::cos: even, cos(+-0) = 1, NaN for an infinity or a NaN.
cos(x) ==
    IF is_nan(x) \/ is_infinite(x) THEN NAN
    ELSE IF IsZero(x) THEN F32(0, 127, 0)
    ELSE SinCosTable[Mag(x)][2]

(***************************************************************************)
(* Strings, as sequences of characters, and str::parse::<f32>.             *)
(***************************************************************************)
DigitChars == <<"0", "1", "2", "3", "4", "5", "6", "7", "8", "9">>

is_ascii_digit(c) == \E i \in DOMAIN DigitChars : DigitChars[i] = c

to_digit(c) == (CHOOSE i \in DOMAIN DigitChars : DigitChars[i] = c) - 1

UpperChars == <<"A", "B", "C", "D", "E", "F", "G", "H", "I", "J", "K", "L", "M",
                "N", "O", "P", "Q", "R", "S", "T", "U", "V", "W", "X", "Y", "Z">>

LowerChars == <<"a", "b", "c", "d", "e", "f", "g", "h", "i", "j", "k", "l", "m",
                "n", "o", "p", "q", "r", "s", "t", "u", "v", "w", "x", "y", "z">>

to_ascii_lowercase(s) ==
    [i \in DOMAIN s |->
        IF \E k \in DOMAIN UpperChars : UpperChars[k] = s[i]
        THEN LowerChars[CHOOSE k \in DOMAIN UpperChars : UpperChars[k] = s[i]]
        ELSE s[i]]

is_whitespace(c) == c \in {" ", "\t", "\n", "\r"}

\* str::strip_suffix
strip_suffix(s, suffix) ==
    IF Len(s) >= Len(suffix) /\ SubSeq(s, Len(s) - Len(suffix) + 1, Len(s)) = suffix
    THEN Some(SubSeq(s, 1, Len(s) - Len(suffix)))
    ELSE None

RECURSIVE trim_start(_)
trim_start(s) ==
    IF s # <<>> /\ is_whitespace(s[1]) THEN trim_start(Tail(s)) ELSE s

RECURSIVE trim_end(_)
trim_end(s) ==
    IF s # <<>> /\ is_whitespace(s[Len(s)])
    THEN trim_end(SubSeq(s, 1, Len(s) - 1))
    ELSE s

\* str::trim
trim(s) == trim_end(trim_start(s))

\* The number a sequence of digits writes.
RECURSIVE DigitsValue(_)
DigitsValue(ds) ==
    IF ds = <<>>
    THEN 0
    ELSE 10 * DigitsValue(SubSeq(ds, 1, Len(ds) - 1)) + to_digit(ds[Len(ds)])

\* The characters of s that are not c, in order.
Without(s, c) == SelectSeq(s, LAMBDA x : x # c)

\* Digits with at most one decimal point and at least one digit.
IsDecimal(s) ==
    /\ \A i \in DOMAIN s : is_ascii_digit(s[i]) \/ s[i] = "."
    /\ Len(Without(s, ".")) >= 1
    /\ Len(s) - Len(Without(s, ".")) <= 1

\* The number of digits after the decimal point.
FractionDigits(s) ==
    IF \E i \in DOMAIN s : s[i] = "."
    THEN Len(s) - (CHOOSE i \in DOMAIN s : s[i] = ".")
    ELSE 0

\* The f32 nearest to a decimal: an integer of up to nine digits is rounded
\* once; with a fraction and up to seven digits both the digits' number and
\* the power of ten are exact, so their quotient is rounded once.
DecimalValue(s) ==
    IF FractionDigits(s) = 0
    THEN FromNat(DigitsValue(Without(s, ".")))
    ELSE Div(FromNat(DigitsValue(Without(s, "."))), FromNat(10^FractionDigits(s)))

WithSign(neg, x) == IF neg THEN Neg(x) ELSE x

\* str::parse::<f32>: an optional sign, then "inf", "infinity" or "nan" in
\* any case, or a decimal number. (Exponent notation, which the parser
\* accepts as well, is not among the model's angles.)
parse_f32(s) ==
    LET signed == s # <<>> /\ s[1] \in {"+", "-"}
        neg    == s # <<>> /\ s[1] = "-"
        body   == IF signed THEN Tail(s) ELSE s
        lower  == to_ascii_lowercase(body)
    IN IF lower \in {<<"i", "n", "f">>, <<"i", "n", "f", "i", "n", "i", "t", "y">>}
       THEN Some(WithSign(neg, INFINITY(0)))
       ELSE IF lower = <<"n", "a", "n">>
            THEN Some(NAN)
            ELSE IF IsDecimal(body)
                 THEN Some(WithSign(neg, DecimalValue(body)))
                 ELSE None

(***************************************************************************)
(* ColorBrushConfig::to_color_brush for a gradient with direction          *)
(* Angle(angle): the GradientCoordinates of the brush.                     *)
(***************************************************************************)
Half == F32(0, 126, 0)

One == F32(0, 127, 0)

\* Line::plug_in_x
plug_in_x(line, x) == Add(Mul(line.m, x), line.b)

\* A start or end point: the collision of the line with the unit square,
\* from the first estimate x of the point's x-coordinate.
Collide(line, x) ==
    LET y == plug_in_x(line, x)
    IN IF Le(Zero(0), y) /\ Le(y, One)
       THEN <<x, y>>
       ELSE IF Le(One, y)
            THEN <<Div(Sub(One, line.b), line.m), One>>
            ELSE <<Div(Neg(line.b), line.m), Zero(0)>>

D2D1_COLOR_F(r, g, b, a) == [r |-> r, g |-> g, b |-> b, a |-> a]

\* D2D1_COLOR_F::default(): the derived Default, every channel 0.0.
D2D1_COLOR_F_default == D2D1_COLOR_F(Zero(0), Zero(0), Zero(0), Zero(0))

\* ColorBrush::default()
ColorBrushDefault == [kind |-> "Solid", color |-> D2D1_COLOR_F_default, brush |-> None]

\* angle.strip_suffix("deg").and_then(|d| d.trim().parse::<f32>().ok())
parse_angle(angle) ==
    LET suffixless == strip_suffix(angle, <<"d", "e", "g">>)
    IN IF suffixless = None THEN None ELSE parse_f32(trim(suffixless[1]))

\* rad = -degree * PI / 180.0
Radians(degree) == Div(Mul(Neg(degree), PI), FromNat(180))

\* degree.abs() % 360.0
Turn(degree) == Rem(abs(degree), FromNat(360))

\* The slope m of the line.
Slope(degree, rad) ==
    IF Eq(Turn(degree), FromNat(90)) \/ Eq(Turn(degree), FromNat(270))
    THEN Mul(signum(degree), MAX)
    ELSE Div(sin(rad), cos(rad))

\* The y-intercept b of the line through (0.5, 0.5).
Intercept(m) == Add(Mul(Neg(m), Half), Half)

\* The first estimates (x_s, x_e) of the points' x-coordinates.
Estimates(degree) ==
    IF Le(Zero(0), Turn(degree)) /\ Lt(Turn(degree), FromNat(90))
    THEN <<Zero(0), One>>
    ELSE IF Le(FromNat(90), Turn(degree)) /\ Lt(Turn(degree), FromNat(270))
         THEN <<One, Zero(0)>>
         ELSE <<Zero(0), One>>

GradientBrush(start, end) ==
    [kind |-> "Gradient", direction |-> [start |-> start, end |-> end]]

\* The brush to_color_brush returns for direction Angle(angle).
to_color_brush(angle) ==
    LET parsed == parse_angle(angle)
    IN IF parsed = None
       THEN ColorBrushDefault
       ELSE LET degree == parsed[1]
                rad    == Radians(degree)
                m      == Slope(degree, rad)
                line   == [m |-> m, b |-> Intercept(m)]
                x      == Estimates(degree)
            IN GradientBrush(Collide(line, x[1]), Collide(line, x[2]))

(***************************************************************************)
(* The gradient angles of the model.                                       *)
(***************************************************************************)
\* The decimal digits of a natural number.
RECURSIVE to_string(_)
to_string(n) ==
    IF n < 10
    THEN <<DigitChars[n + 1]>>
    ELSE Append(to_string(n \div 10), DigitChars[(n % 10) + 1])

Deg(body) == body \o <<"d", "e", "g">>

\* Whole degrees: the multiples of 30 and of 45 up to two turns, and an
\* angle of ten thousand turns and 45 degrees.
WholeDegrees ==
    {0, 30, 45, 60, 90, 120, 135, 150, 180, 210, 225, 240, 270, 300, 315, 330,
     360, 405, 450, 540, 630, 720, 3600045}

\* Angle strings as a configuration file can hold them: the whole degrees
\* with either sign, and strings that exercise the parser.
Angles ==
    { Deg(to_string(n)) : n \in WholeDegrees }
    \cup { Deg(<<"-">> \o to_string(n)) : n \in WholeDegrees }
    \cup { Deg(<<"+", "9", "0">>), Deg(<<" ", "9", "0", " ">>),
           Deg(<<"2", "2", ".", "5">>), Deg(<<"N", "a", "N">>),
           Deg(<<"i", "n", "f">>), Deg(<<"-", "i", "n", "f">>),
           Deg(<<"I", "n", "f", "i", "n", "i", "t", "y">>),
           Deg(<<>>), Deg(<<"-">>), Deg(<<".">>), Deg(<<"a", "b", "c">>),
           Deg(<<"9", " ", "0">>), Deg(Deg(<<"9", "0">>)),
           <<"9", "0">>, <<"9", "0", "d", "e", "g", " ">>, <<>> }

InitGrad ==
    /\ BORDERS = <<>>
    /\ bordersLock = {}
    /\ CONFIG = [rules |-> [w \in Windows |-> DefaultRule], global |-> DefaultGlobal]
    /\ INITIAL_WINDOWS = {1}
    /\ threads = [t \in Tids |-> NoThread]
    /\ calls = <<>>
    /\ hook = [pc |-> "idle", w |-> 0, found |-> None]
    /\ last_show = NoShow
    /\ queue = [h \in Handles |-> <<>>]
    /\ nextHandle = 1
    /\ arg \in Angles
    /\ res = None

(***************************************************************************)
(* to_color_brush step by step: res holds the locals of the call on        *)
(* Angle(arg), and at the end the brush it returns.                        *)
(***************************************************************************)
InCall(pc) == res # None /\ res[1].pc = pc

Returned(brush) == Some([pc |-> "returned", brush |-> brush])

\* The let-else on strip_suffix and parse: degree, or the default brush.
AngleParse ==
    /\ res = None
    /\ res' = IF parse_angle(arg) = None
              THEN Returned(ColorBrushDefault)
              ELSE Some([pc |-> "rad", degree |-> parse_angle(arg)[1]])
    /\ UNCHANGED <<arg, registryVars, cfgVars>>

AngleRadians ==
    /\ InCall("rad")
    /\ res' = Some([pc |-> "m", degree |-> res[1].degree,
                    rad |-> Radians(res[1].degree)])
    /\ UNCHANGED <<arg, registryVars, cfgVars>>

AngleSlope ==
    /\ InCall("m")
    /\ res' = Some([pc |-> "b", degree |-> res[1].degree,
                    m |-> Slope(res[1].degree, res[1].rad)])
    /\ UNCHANGED <<arg, registryVars, cfgVars>>

\* b, the Line, and the estimates x_s and x_e.
AngleLine ==
    /\ InCall("b")
    /\ res' = Some([pc |-> "start",
                    line |-> [m |-> res[1].m, b |-> Intercept(res[1].m)],
                    x_s |-> Estimates(res[1].degree)[1],
                    x_e |-> Estimates(res[1].degree)[2]])
    /\ UNCHANGED <<arg, registryVars, cfgVars>>

AngleStart ==
    /\ InCall("start")
    /\ res' = Some([pc |-> "end", line |-> res[1].line, x_e |-> res[1].x_e,
                    start |-> Collide(res[1].line, res[1].x_s)])
    /\ UNCHANGED <<arg, registryVars, cfgVars>>

\* end, and the ColorBrush::Gradient returned.
AngleEnd ==
    /\ InCall("end")
    /\ res' = Returned(GradientBrush(res[1].start,
                                     Collide(res[1].line, res[1].x_e)))
    /\ UNCHANGED <<arg, registryVars, cfgVars>>

NextGrad ==
    \/ AngleParse
    \/ AngleRadians
    \/ AngleSlope
    \/ AngleLine
    \/ AngleStart
    \/ AngleEnd

SpecGrad == InitGrad /\ [][NextGrad]_vars

\* x lies in [0, 1].
InUnit(x) == Le(Zero(0), x) /\ Le(x, One)

\* to_color_brush has returned a gradient brush.
IsGradient(r) == r # None /\ r[1].pc = "returned" /\ r[1].brush.kind = "Gradient"

\* C9 as stated: whenever the parser accepts the angle, the four
\* coordinates of the brush's start and end points lie in [0, 1].
C9_DirectionInUnitSquare ==
    IsGradient(res) =>
        /\ InUnit(res[1].brush.direction.start[1])
        /\ InUnit(res[1].brush.direction.start[2])
        /\ InUnit(res[1].brush.direction.end[1])
        /\ InUnit(res[1].brush.direction.end[2])

\* The degrees an angle string writes, when they are a whole number.
WholeDegreesOf(angle) ==
    LET suffixless == strip_suffix(angle, <<"d", "e", "g">>)
        body       == IF suffixless = None THEN <<>> ELSE trim(suffixless[1])
        signed     == body # <<>> /\ body[1] \in {"+", "-"}
        digits     == IF signed THEN Tail(body) ELSE body
    IN IF digits # <<>> /\ \A i \in DOMAIN digits : is_ascii_digit(digits[i])
       THEN Some(IF body[1] = "-" THEN 0 - DigitsValue(digits) ELSE DigitsValue(digits))
       ELSE None

\* Two angle strings write whole degrees that differ by a multiple of 360.
Congruent(a1, a2) ==
    /\ WholeDegreesOf(a1) # None
    /\ WholeDegreesOf(a2) # None
    /\ (WholeDegreesOf(a1)[1] - WholeDegreesOf(a2)[1]) % 360 = 0

\* The three angles of the tests give the coordinates the tests expect.
TestedAngles ==
    /\ arg = Deg(<<"9", "0">>) /\ IsGradient(res)
          => res[1].brush = GradientBrush(<<Half, One>>, <<Half, Zero(0)>>)
    /\ arg = Deg(<<"-", "9", "0">>) /\ IsGradient(res)
          => res[1].brush = GradientBrush(<<Half, Zero(0)>>, <<Half, One>>)
    /\ arg = Deg(<<"-", "5", "4", "0">>) /\ IsGradient(res)
          => res[1].brush = GradientBrush(<<One, Half>>, <<Zero(0), Half>>)

\* C10 as stated: angles congruent modulo 360 give identical start and end
\* points, and 90, -90 and -540 degrees give the points of the tests.
C10_DependsOnAngleMod360 ==
    /\ IsGradient(res) =>
          \A a \in Angles : Congruent(arg, a) => to_color_brush(a) = res[1].brush
    /\ TestedAngles

(***************************************************************************)
(* Rust results: a value, an Err, or a panic that unwinds the call.        *)
(***************************************************************************)
Ok(v) == [tag |-> "Ok", v |-> v]

Err == [tag |-> "Err"]

Panic == [tag |-> "Panic"]

(***************************************************************************)
(* str as UTF-8: a string is its sequence of characters, its length and    *)
(* its indices count bytes.                                                *)
(***************************************************************************)
\* The characters of the model that take two bytes; every other one is ASCII.
TwoByteChars == {"é"}

\* char::len_utf8
len_utf8(c) == IF c \in TwoByteChars THEN 2 ELSE 1

\* The number of bytes of the first k characters of s.
RECURSIVE byte_offset(_, _)
byte_offset(s, k) == IF k = 0 THEN 0 ELSE byte_offset(s, k - 1) + len_utf8(s[k])

\* str::len
len(s) == byte_offset(s, Len(s))

\* str::is_char_boundary
is_char_boundary(s, i) == \E k \in 0..Len(s) : byte_offset(s, k) = i

\* The number of characters that make up the first i bytes of s.
chars_before(s, i) == CHOOSE k \in 0..Len(s) : byte_offset(s, k) = i

\* The element of a one-element set. A local of the code is bound to its
\* value as the x of { e : x \in {value} }.
Only(S) == CHOOSE x \in S : TRUE

\* &s[a..b]: panics unless a <= b <= s.len() and both lie on character
\* boundaries.
slice(s, a, b) ==
    Only({ IF a <= b /\ is_char_boundary(str, a) /\ is_char_boundary(str, b)
           THEN Ok(SubSeq(str, chars_before(str, a) + 1, chars_before(str, b)))
           ELSE Panic
           : str \in {s} })

\* str::strip_prefix
strip_prefix(s, prefix) ==
    IF Len(s) >= Len(prefix) /\ SubSeq(s, 1, Len(prefix)) = prefix
    THEN Some(SubSeq(s, Len(prefix) + 1, Len(s)))
    ELSE None

HexDigitChars == <<"0", "1", "2", "3", "4", "5", "6", "7", "8", "9",
                   "a", "b", "c", "d", "e", "f">>

\* char::is_ascii_hexdigit
is_ascii_hexdigit(c) ==
    \E i \in DOMAIN HexDigitChars : HexDigitChars[i] = to_ascii_lowercase(<<c>>)[1]

\* char::to_digit(16) of a hexadecimal digit.
to_digit_16(c) ==
    (CHOOSE i \in DOMAIN HexDigitChars : HexDigitChars[i] = to_ascii_lowercase(<<c>>)[1]) - 1

\* The number a sequence of hexadecimal digits writes.
RECURSIVE HexDigitsValue(_)
HexDigitsValue(ds) ==
    IF ds = <<>>
    THEN 0
    ELSE 16 * HexDigitsValue(SubSeq(ds, 1, Len(ds) - 1)) + to_digit_16(ds[Len(ds)])

\* u8::from_str_radix(src, 16): an optional "+", then one or more
\* hexadecimal digits whose number fits a u8.
from_str_radix_16(src) ==
    Only({ IF /\ digits # <<>>
              /\ \A i \in DOMAIN digits : is_ascii_hexdigit(digits[i])
              /\ HexDigitsValue(digits) <= 255
           THEN Ok(HexDigitsValue(digits))
           ELSE Err
           : digits \in {IF src # <<>> /\ src[1] = "+" THEN Tail(src) ELSE src} })

\* a | b of two u8.
RECURSIVE BitOr(_, _)
BitOr(a, b) ==
    IF a = 0 /\ b = 0
    THEN 0
    ELSE (IF a % 2 = 1 \/ b % 2 = 1 THEN 1 ELSE 0) + 2 * BitOr(a \div 2, b \div 2)

\* n << 4 of a u8.
Shl4(n) == (n * 16) % 256

(***************************************************************************)
(* D2D1_COLOR_F and the hex parser of src/colors.rs.                       *)
(***************************************************************************)
\* The closure parse_digit of parse_hex.
parse_digit(digit, single) ==
    Only({ IF n = Err
           THEN Err
           ELSE Only({ Ok(Div(FromNat(byte), FromNat(255)))
                       : byte \in {IF single THEN BitOr(Shl4(n.v), n.v) ELSE n.v} })
           : n \in {from_str_radix_16(d) : d \in {digit}} })

\* parse_digit(&s[a..b], single)?
Channel(s, a, b, single) ==
    Only({ IF digit = Panic THEN Panic ELSE parse_digit(digit.v, single)
           : digit \in {slice(s, a, b)} })

\* The color of four channel results taken in order: the first one that is
\* not a value ends the call.
ColorOf(r, g, b, a) ==
    Only({ Only({ IF bad = {}
                  THEN Ok(D2D1_COLOR_F(cs[1].v, cs[2].v, cs[3].v, cs[4].v))
                  ELSE cs[CHOOSE i \in bad : \A j \in bad : i <= j]
                  : bad \in {{i \in 1..4 : cs[i].tag # "Ok"}} })
           : cs \in {<<r, g, b, a>>} })

\* The guard of parse_hex: the length is 3, 4, 6 or 8 and every character
\* of s[1..] is a hexadecimal digit. The slice is only taken for such a
\* length.
HexGuard(s) ==
    IF len(s) \notin {3, 4, 6, 8}
    THEN Err
    ELSE Only({ IF rest = Panic
                THEN Panic
                ELSE IF \A i \in DOMAIN rest.v : is_ascii_hexdigit(rest.v[i])
                     THEN Ok(len(s))
                     ELSE Err
                : rest \in {slice(s, 1, len(s))} })

parse_hex(s) ==
    Only({ Only({
        IF n \in {Err, Panic}
        THEN n
        ELSE IF n.v \in {3, 4}
             THEN ColorOf(Channel(str, 0, 1, TRUE), Channel(str, 1, 2, TRUE),
                          Channel(str, 2, 3, TRUE),
                          IF n.v = 4 THEN Channel(str, 3, 4, TRUE) ELSE Ok(One))
             ELSE ColorOf(Channel(str, 0, 2, FALSE), Channel(str, 2, 4, FALSE),
                          Channel(str, 4, 6, FALSE),
                          IF n.v = 8 THEN Channel(str, 6, 8, FALSE) ELSE Ok(One))
        : n \in {HexGuard(str)} })
        : str \in {s} })

\* get_color_from_hex: the color, or a panic.
get_color_from_hex(hex) ==
    Only({ IF parsed = Panic
           THEN Panic
           ELSE IF parsed = Err THEN Ok(D2D1_COLOR_F_default) ELSE parsed
           : parsed \in {parse_hex(unwrap_or(strip_prefix(hex, <<"#">>), <<>>))} })

(***************************************************************************)
(* get_accent_color. DwmGetColorizationColor is the compositor's: the      *)
(* model takes the u32 it stores as its four bytes <<a, r, g, b>>, all 0   *)
(* when the call fails.                                                    *)
(***************************************************************************)
OneAndHalf == F32(0, 127, 4194304)

get_accent_color(is_active_color, pcr_colorization) ==
    Only({ Only({ Only({ Only({ Only({
        IF is_active_color
        THEN D2D1_COLOR_F(accent_red, accent_green, accent_blue, One)
        ELSE D2D1_COLOR_F(Add(dark, tenth_red), Add(dark, tenth_green),
                          Add(dark, tenth_blue), One)
        : tenth_red \in {Div(accent_red, FromNat(10))},
          tenth_green \in {Div(accent_green, FromNat(10))},
          tenth_blue \in {Div(accent_blue, FromNat(10))},
          dark \in {Div(accent_avg, OneAndHalf)} })
        : accent_avg \in {Div(sum, FromNat(3))} })
        : sum \in {Add(red_green, accent_blue)} })
        : red_green \in {Add(accent_red, accent_green)} })
        : accent_red \in {Div(FromNat(pcr_colorization[2]), FromNat(255))},
          accent_green \in {Div(FromNat(pcr_colorization[3]), FromNat(255))},
          accent_blue \in {Div(FromNat(pcr_colorization[4]), FromNat(255))} })

(***************************************************************************)
(* ColorBrushConfig::to_color_brush, step by step. arg is the call:        *)
(* the config, is_active_color, and the colorization the compositor        *)
(* reports; res holds the locals, and at the end the brush returned or     *)
(* the panic.                                                              *)
(***************************************************************************)
Accent == <<"a", "c", "c", "e", "n", "t">>

SolidBrush(color) == [kind |-> "Solid", color |-> color, brush |-> None]

\* The color of one token, as both arms of to_color_brush resolve it.
TokenColor(color, is_active_color, pcr_colorization) ==
    IF color = Accent
    THEN Ok(get_accent_color(is_active_color, pcr_colorization))
    ELSE get_color_from_hex(color)

Panicked == Some([pc |-> "panicked"])

\* Solid(solid_config), solid_config == "accent".
SolidAccent ==
    /\ res = None
    /\ arg.config.kind = "Solid"
    /\ arg.config.token = Accent
    /\ res' = Returned(SolidBrush(get_accent_color(arg.is_active_color,
                                                    arg.pcr_colorization)))
    /\ UNCHANGED <<arg, registryVars, cfgVars>>

\* Solid(solid_config), any other token: get_color_from_hex up to the
\* Result of parse_hex.
SolidParse ==
    /\ res = None
    /\ arg.config.kind = "Solid"
    /\ arg.config.token # Accent
    /\ \E parsed \in {parse_hex(unwrap_or(strip_prefix(arg.config.token, <<"#">>), <<>>))} :
          res' = IF parsed = Panic
                 THEN Panicked
                 ELSE Some([pc |-> "parsed", parsed |-> parsed])
    /\ UNCHANGED <<arg, registryVars, cfgVars>>

\* unwrap_or_else of get_color_from_hex, and the brush returned.
SolidReturn ==
    /\ InCall("parsed")
    /\ res' = Some([pc |-> "returned", parsed |-> res[1].parsed,
                    brush |-> SolidBrush(IF res[1].parsed = Err
                                         THEN D2D1_COLOR_F_default
                                         ELSE res[1].parsed.v)])
    /\ UNCHANGED <<arg, registryVars, cfgVars>>

\* 2^-64, which 1.0 / (usize::MAX as f32) is.
TwoToMinus64 == F32(0, 63, 0)

\* step = 1.0 / (colors.len() - 1) as f32. With no colors the subtraction
\* overflows: a build with overflow checks panics, one without wraps to
\* usize::MAX.
GradientStep ==
    /\ res = None
    /\ arg.config.kind = "Gradient"
    /\ \/ /\ Len(arg.config.colors) >= 1
          /\ res' = Some([pc |-> "stops", gradient_stops |-> <<>>,
                          step |-> Div(One, FromNat(Len(arg.config.colors) - 1))])
       \/ /\ Len(arg.config.colors) = 0
          /\ res' \in {Panicked,
                       Some([pc |-> "stops", gradient_stops |-> <<>>,
                             step |-> TwoToMinus64])}
    /\ UNCHANGED <<arg, registryVars, cfgVars>>

D2D1_GRADIENT_STOP(position, color) == [position |-> position, color |-> color]

\* One turn of the map over colors: the stop of the next color.
GradientStop ==
    /\ InCall("stops")
    /\ Len(res[1].gradient_stops) < Len(arg.config.colors)
    /\ \E i \in {Len(res[1].gradient_stops)} :
       \E color \in {TokenColor(arg.config.colors[i + 1], arg.is_active_color,
                                arg.pcr_colorization)} :
          res' = IF color = Panic
                 THEN Panicked
                 ELSE Some([res[1] EXCEPT !.gradient_stops =
                               Append(@, D2D1_GRADIENT_STOP(
                                             Mul(FromNat(i), res[1].step), color.v))])
    /\ UNCHANGED <<arg, registryVars, cfgVars>>

GradientBrushOf(gradient_stops, direction) ==
    [kind |-> "Gradient", gradient_stops |-> gradient_stops,
     direction |-> direction, brush |-> None]

\* The match on gradient_config.direction once the stops are collected:
\* coordinates pass through; an angle is parsed, and the default brush
\* returned when it does not parse.
GradientDirection ==
    /\ InCall("stops")
    /\ Len(res[1].gradient_stops) = Len(arg.config.colors)
    /\ res' = IF arg.config.direction.kind = "Coordinates"
              THEN Returned(GradientBrushOf(res[1].gradient_stops,
                                            arg.config.direction.coordinates))
              ELSE IF parse_angle(arg.config.direction.angle) = None
                   THEN Returned(ColorBrushDefault)
                   ELSE Some([pc |-> "rad", gradient_stops |-> res[1].gradient_stops,
                              degree |-> parse_angle(arg.config.direction.angle)[1]])
    /\ UNCHANGED <<arg, registryVars, cfgVars>>

\* The locals after the next statement of the Angle arm.
AngleNext(l) ==
    CASE l.pc = "rad" ->
            [pc |-> "m", gradient_stops |-> l.gradient_stops, degree |-> l.degree,
             rad |-> Radians(l.degree)]
      [] l.pc = "m" ->
            [pc |-> "b", gradient_stops |-> l.gradient_stops, degree |-> l.degree,
             m |-> Slope(l.degree, l.rad)]
      [] l.pc = "b" ->
            [pc |-> "start", gradient_stops |-> l.gradient_stops,
             line |-> [m |-> l.m, b |-> Intercept(l.m)],
             x_s |-> Estimates(l.degree)[1], x_e |-> Estimates(l.degree)[2]]
      [] l.pc = "start" ->
            [pc |-> "end", gradient_stops |-> l.gradient_stops, line |-> l.line,
             x_e |-> l.x_e, start |-> Collide(l.line, l.x_s)]
      [] l.pc = "end" ->
            [pc |-> "returned",
             brush |-> GradientBrushOf(l.gradient_stops,
                                       [start |-> l.start,
                                        end |-> Collide(l.line, l.x_e)])]

GradientAngle ==
    /\ res # None
    /\ res[1].pc \in {"rad", "m", "b", "start", "end"}
    /\ res' = Some(AngleNext(res[1]))
    /\ UNCHANGED <<arg, registryVars, cfgVars>>

NextBrush ==
    \/ SolidAccent
    \/ SolidParse
    \/ SolidReturn
    \/ GradientStep
    \/ GradientStop
    \/ GradientDirection
    \/ GradientAngle

(***************************************************************************)
(* The color configurations of the model.                                  *)
(***************************************************************************)
Hex(digits) == <<"#">> \o digits

\* A shorthand's digits, each one written twice.
Doubled(digits) == [i \in 1..(2 * Len(digits)) |-> digits[(i + 1) \div 2]]

ShortDigits == {"0", "8", "a", "C", "f"}

AlphaDigits == {"0", "8", "f"}

\* Three- and four-digit shorthands.
Shorthands ==
    { <<x, y, z>> : x \in ShortDigits, y \in ShortDigits, z \in ShortDigits }
    \cup { <<x, y, z, a>> : x \in AlphaDigits, y \in AlphaDigits,
                            z \in AlphaDigits, a \in AlphaDigits }

\* Six- and eight-digit forms that no shorthand doubles to.
LongForms ==
    { <<"f", "f", "f", "f", "f", "f">>,
      <<"f", "f", "f", "f", "f", "f", "8", "0">>,
      <<"0", "0", "0", "0", "0", "0">>, <<"1", "2", "3", "4", "5", "6">>,
      <<"a", "b", "c", "d", "e", "f">>, <<"A", "B", "C", "D", "E", "F">>,
      <<"8", "9", "a", "b", "c", "d", "e", "f">>,
      <<"0", "0", "0", "0", "0", "0", "0", "0">>,
      <<"7", "f", "7", "f", "7", "f", "7", "f">> }

\* Tokens of the four hex forms.
HexForms ==
    { Hex(d) : d \in Shorthands }
    \cup { Hex(Doubled(d)) : d \in Shorthands }
    \cup { Hex(d) : d \in LongForms }

\* Tokens with a '#' that are of none of the four forms: other lengths,
\* other characters, signs, characters of two bytes.
OtherHashTokens ==
    { <<"#">>, <<"#", "f">>, <<"#", "f", "f">>,
      <<"#", "f", "f", "f", "f", "f">>,
      <<"#", "f", "f", "f", "f", "f", "f", "f">>,
      <<"#", "f", "f", "f", "f", "f", "f", "f", "f", "f">>,
      <<"#", "g", "g", "g">>, <<"#", "f", "g", "f">>,
      <<"#", "f", "f", "g">>, <<"#", "x", "y", "z", "1", "2", "3">>,
      <<"#", "f", "f", "f", "f", "f", "g">>, <<"#", "+", "f", "f">>,
      <<"#", "-", "f", "f">>, <<"#", "+", "f", "f", "f", "f", "f">>,
      <<"#", "-", "f", "f", "f", "f", "f">>,
      <<"#", "+", "f", "f", "f", "f", "f", "8", "0">>,
      <<"#", "f", "+", "f">>, <<"#", " ", "f", "f", "f">>,
      <<"#", "f", "f", "f", " ">>, <<"#", "#", "f", "f", "f">>,
      <<"#", "é", "a">>, <<"#", "a", "é">>, <<"#", "é">>,
      <<"#", "é", "a", "b">>, <<"#", "é", "a", "b", "c", "d">>,
      <<"#", "a", "b", "c", "é">>, <<"#", "0", "x", "1", "f">>,
      <<"#", "f", "f", "f", "f", "f", "f", "z", "z">> }

\* rgb(...) and rgba(...) tokens, well-formed and malformed.
RgbTokens ==
    { <<"r", "g", "b", "(", "2", "5", "5", ",", "0", ",", "0", ")">>,
      <<"r", "g", "b", "a", "(", "0", ",", "0", ",", "0", ",", "0", ".", "5", ")">>,
      <<"r", "g", "b", "a", "(", "2", "5", "5", ",", "1", "2", "8", ",", "0", ",", "2", ")">>,
      <<"r", "g", "b", "a", "(", "0", ",", "2", "5", "5", ",", "0", ",", "-", "1", ")">>,
      <<"r", "g", "b", "(", "1", ",", "2", ")">>,
      <<"r", "g", "b", "(", "a", ",", "b", ",", "c", ")">>,
      <<"r", "g", "b", "(", "2", "5", "6", ",", "0", ",", "0", ")">>,
      <<"r", "g", "b", "(", "1", ",", "2", ",", "3", ",", "4", ",", "5", ")">> }

\* Tokens that are neither.
PlainTokens ==
    { <<>>, <<"f", "f", "f", "f", "f", "f">>, <<"f", "f", "f">>,
      <<"A", "c", "c", "e", "n", "t">>, <<"w", "h", "i", "t", "e">> }

SolidTokens == HexForms \cup OtherHashTokens \cup RgbTokens \cup PlainTokens \cup {Accent}

\* The colors of the model's gradients: the first n of this cycle.
ColorCycle ==
    << <<"#", "f", "f", "f", "f", "f", "f">>,
       <<"#", "0", "0", "0", "0", "0", "0">>,
       <<"a", "c", "c", "e", "n", "t">>,
       <<"#", "a", "b", "c">>,
       <<"#", "f", "f", "f", "f", "f", "f", "8", "0">>,
       <<"r", "g", "b", "(", "2", "5", "5", ",", "0", ",", "0", ")">>,
       <<"#", "1", "2", "g">> >>

Colors(n) == [i \in 1..n |-> ColorCycle[((i - 1) % Len(ColorCycle)) + 1]]

\* Up to MaxStops colors, and one long gradient.
MaxStops == 7

ManyStops == 42

\* A gradient whose first color starts with a character of two bytes.
TwoByteColors == << <<"#", "é", "a">>, <<"#", "0", "0", "0", "0", "0", "0">> >>

ColorLists == { Colors(n) : n \in (0..MaxStops) \cup {ManyStops} } \cup {TwoByteColors}

\* Angle strings that parse.
GoodAngles ==
    { <<"9", "0", "d", "e", "g">>, <<"-", "9", "0", "d", "e", "g">>,
      <<"4", "5", "d", "e", "g">>, <<"-", "5", "4", "0", "d", "e", "g">>,
      <<" ", "9", "0", " ", "d", "e", "g">> }

\* Angle strings that do not: no "deg" suffix, or not a number before it.
BadAngles ==
    { <<>>, <<"9", "0">>, <<"d", "e", "g">>,
      <<"a", "b", "c", "d", "e", "g">>, <<"9", " ", "0", "d", "e", "g">>,
      <<"9", "0", "D", "E", "G">>,
      <<"9", "0", " ", "d", "e", "g", "r", "e", "e", "s">>,
      <<"n", "i", "n", "e", "t", "y", "d", "e", "g">>,
      <<"9", "0", "d", "e", "g", " ">> }

Angle(angle) == [kind |-> "Angle", angle |-> angle]

Coordinates(start, end) ==
    [kind |-> "Coordinates", coordinates |-> [start |-> start, end |-> end]]

Directions ==
    { Angle(a) : a \in GoodAngles \cup BadAngles }
    \cup { Coordinates(<<Zero(0), Zero(0)>>, <<One, One>>),
           Coordinates(<<Half, One>>, <<Half, Zero(0)>>) }

Solid(token) == [kind |-> "Solid", token |-> token]

Gradient(colors, direction) ==
    [kind |-> "Gradient", colors |-> colors, direction |-> direction]

BrushConfigs ==
    { Solid(t) : t \in SolidTokens }
    \cup { Gradient(c, d) : c \in ColorLists, d \in Directions }

\* What DwmGetColorizationColor stores: nothing (the call failed), or the
\* colorization 0xC40078D7.
Colorizations == { <<0, 0, 0, 0>>, <<196, 0, 120, 215>> }

InitBrush ==
    /\ BORDERS = <<>>
    /\ bordersLock = {}
    /\ CONFIG = [rules |-> [w \in Windows |-> DefaultRule], global |-> DefaultGlobal]
    /\ INITIAL_WINDOWS = {1}
    /\ threads = [t \in Tids |-> NoThread]
    /\ calls = <<>>
    /\ hook = [pc |-> "idle", w |-> 0, found |-> None]
    /\ last_show = NoShow
    /\ queue = [h \in Handles |-> <<>>]
    /\ nextHandle = 1
    /\ arg \in { [config |-> c, is_active_color |-> b, pcr_colorization |-> p] :
                     c \in BrushConfigs, b \in BOOLEAN, p \in Colorizations }
    /\ res = None

SpecBrush == InitBrush /\ [][NextBrush]_vars

(***************************************************************************)
(* Claims about the colors.                                                *)
(***************************************************************************)
\* A token of one of the forms #RGB, #RGBA, #RRGGBB, #RRGGBBAA.
IsHexForm(token) ==
    /\ token # <<>>
    /\ token[1] = "#"
    /\ Len(token) - 1 \in {3, 4, 6, 8}
    /\ \A i \in 2..Len(token) : is_ascii_hexdigit(token[i])

\* The k-th two-digit channel byte of six or eight digits, and v / 255.
ByteValue(digits, k) ==
    16 * to_digit_16(digits[2 * k - 1]) + to_digit_16(digits[2 * k])

Over255(v) == Div(FromNat(v), FromNat(255))

\* The color the claim gives the digits of a hex form.
LongColor(digits) ==
    D2D1_COLOR_F(Over255(ByteValue(digits, 1)), Over255(ByteValue(digits, 2)),
                 Over255(ByteValue(digits, 3)),
                 IF Len(digits) = 8 THEN Over255(ByteValue(digits, 4)) ELSE One)

HexColor(digits) ==
    LongColor(IF Len(digits) \in {3, 4} THEN Doubled(digits) ELSE digits)

\* to_color_brush on a Solid token other than "accent" is past parse_hex.
SolidParsed ==
    /\ res # None
    /\ arg.config.kind = "Solid"
    /\ arg.config.token # Accent
    /\ res[1].pc \in {"parsed", "returned"}

\* C11 as stated: parse_hex accepts a token exactly when it is of one of
\* the four forms; a two-digit byte v gives v/255 and a missing alpha 1.0,
\* so #ffffff is (1,1,1,1) and #ffffff80 is (1,1,1,128/255); and a
\* shorthand resolves to the color of its doubled form.
C11_HexForms ==
    SolidParsed =>
        LET token == arg.config.token
        IN /\ (res[1].parsed # Err) <=> IsHexForm(token)
           /\ IsHexForm(token) =>
                 /\ res[1].parsed = Ok(HexColor(Tail(token)))
                 /\ res[1].pc = "returned" =>
                       res[1].brush = SolidBrush(HexColor(Tail(token)))
           /\ (IsHexForm(token) /\ Len(token) - 1 \in {3, 4}) =>
                 res[1].parsed = parse_hex(Doubled(Tail(token)))
           /\ token = Hex(<<"f", "f", "f", "f", "f", "f">>) =>
                 res[1].parsed = Ok(D2D1_COLOR_F(One, One, One, One))
           /\ token = Hex(<<"f", "f", "f", "f", "f", "f", "8", "0">>) =>
                 res[1].parsed = Ok(D2D1_COLOR_F(One, One, One,
                                                 Div(FromNat(128), FromNat(255))))

\* A token that starts with '#' and is of none of the four forms: a
\* character after the '#' is no hex digit, or the digits are not 3, 4, 6
\* or 8.
IsBadHexToken(token) == token # <<>> /\ token[1] = "#" /\ ~IsHexForm(token)

White == D2D1_COLOR_F(One, One, One, One)

\* to_color_brush has returned a brush.
BrushReturned == res # None /\ res[1].pc = "returned"

\* C12 as stated: a solid hex token with a non-hex character or a wrong
\* number of digits never makes to_color_brush panic, and resolves to
\* white with alpha 1.0.
C12_BadHexIsWhite ==
    (arg.config.kind = "Solid" /\ IsBadHexToken(arg.config.token)) =>
        /\ res # Panicked
        /\ BrushReturned => res[1].brush = SolidBrush(White)

\* The color the claim gives the rgb(...) and rgba(...) tokens of the
\* model: r/255, g/255, b/255 and the alpha clamped to [0, 1], 1.0 when
\* absent; opaque black for the malformed ones.
RgbColor(token) ==
    CASE token = <<"r", "g", "b", "(", "2", "5", "5", ",", "0", ",", "0", ")">> ->
            D2D1_COLOR_F(Over255(255), Over255(0), Over255(0), One)
      [] token = <<"r", "g", "b", "a", "(", "0", ",", "0", ",", "0", ",", "0", ".", "5", ")">> ->
            D2D1_COLOR_F(Over255(0), Over255(0), Over255(0), Half)
      [] token = <<"r", "g", "b", "a", "(", "2", "5", "5", ",", "1", "2", "8", ",", "0", ",", "2", ")">> ->
            D2D1_COLOR_F(Over255(255), Over255(128), Over255(0), One)
      [] token = <<"r", "g", "b", "a", "(", "0", ",", "2", "5", "5", ",", "0", ",", "-", "1", ")">> ->
            D2D1_COLOR_F(Over255(0), Over255(255), Over255(0), Zero(0))
      [] OTHER ->
            D2D1_COLOR_F(Zero(0), Zero(0), Zero(0), One)

\* C13 as stated: rgb(r,g,b) and rgba(r,g,b,a) resolve to (r/255, g/255,
\* b/255, alpha), so rgb(255,0,0) gives (1,0,0,1) and rgba(0,0,0,0.5) gives
\* (0,0,0,0.5), and a malformed rgb/rgba token gives opaque black.
C13_RgbTokens ==
    (arg.config.kind = "Solid" /\ arg.config.token \in RgbTokens) =>
        /\ res # Panicked
        /\ BrushReturned => res[1].brush = SolidBrush(RgbColor(arg.config.token))

\* to_color_brush has returned a gradient brush for a Gradient config.
GradientReturned ==
    /\ BrushReturned
    /\ arg.config.kind = "Gradient"
    /\ res[1].brush.kind = "Gradient"

\* C14 as stated: the stops of a gradient of n >= 2 colors keep the order of
\* the colors, stop i (from 0) is at i/(n-1), so the first is at 0, the last
\* at 1 and the positions strictly increase, and each color is the one the
\* solid rules give its token under the same is_active flag.
C14_StopsEvenlySpaced ==
    (GradientReturned /\ Len(arg.config.colors) >= 2) =>
        LET n     == Len(arg.config.colors)
            stops == res[1].brush.gradient_stops
        IN /\ Len(stops) = n
           /\ \A i \in 1..n :
                 /\ stops[i].position = Div(FromNat(i - 1), FromNat(n - 1))
                 /\ Ok(stops[i].color) =
                       TokenColor(arg.config.colors[i], arg.is_active_color,
                                  arg.pcr_colorization)
           /\ stops[1].position = Zero(0)
           /\ stops[n].position = One
           /\ \A i \in 1..(n - 1) : Lt(stops[i].position, stops[i + 1].position)

\* C15 as stated: a gradient (of at least one color) whose angle string does
\* not parse never makes to_color_brush panic, and resolves to the default
\* descriptor, a solid brush with the default color and no native brush,
\* never to a gradient brush with the stops computed so far.
C15_BadAngleIsDefault ==
    ( /\ arg.config.kind = "Gradient"
      /\ Len(arg.config.colors) >= 1
      /\ arg.config.direction.kind = "Angle"
      /\ arg.config.direction.angle \in BadAngles ) =>
        /\ res # Panicked
        /\ BrushReturned =>
              /\ res[1].brush = SolidBrush(D2D1_COLOR_F_default)
              /\ res[1].brush.kind # "Gradient"

(***************************************************************************)
(* The easing curve of src/utils.rs: bezier(x1, y1, x2, y2) and the        *)
(* closure it returns. arg holds the control points; res the Result of     *)
(* bezier, and the locals of the closure while it runs on an input x.      *)
(***************************************************************************)
\* The f32 nearest to n / d, which is how a decimal literal is read.
Ratio(n, d) == Div(FromNat(n), FromNat(d))

SUBDIVISION_PRECISION == Ratio(1, 10000)

SUBDIVISION_MAX_ITERATIONS == 10

Point(x, y) == [x |-> x, y |-> y]

lerp(t, p1, p2) ==
    Point(Add(p1.x, Mul(Sub(p2.x, p1.x), t)),
          Add(p1.y, Mul(Sub(p2.y, p1.y), t)))

\* (0.0..=1.0).contains(&x)
contains_unit(x) == Le(Zero(0), x) /\ Le(x, One)

\* bezier returns Err(InvalidControlPoint) for a y out of range as well.
ControlPointsInvalidWithY(x1, y1, x2, y2) ==
    ~contains_unit(x1) \/ ~contains_unit(x2) \/ ~contains_unit(y1) \/ ~contains_unit(y2)

\* The check of bezier on its control points.
ControlPointsInvalid(x1, y1, x2, y2) == ~contains_unit(x1) \/ ~contains_unit(x2)

\* The shortcut taken when the two control points are the same point.
IsLinearCoincident(x1, y1, x2, y2) == Eq(x1, x2) /\ Eq(y1, y2)

\* "If the curve is linear, shortcut": x1 == y1 && x2 == y2.
IsLinear(x1, y1, x2, y2) == Eq(x1, y1) /\ Eq(x2, y2)

\* The bracket narrowed the wrong way round.
NarrowSwapped(l, error) ==
    IF Lt(Zero(0), error) THEN [l EXCEPT !.t1 = l.t] ELSE [l EXCEPT !.t0 = l.t]

\* "Adjust the range based on the error."
Narrow(l, error) ==
    IF Lt(Zero(0), error) THEN [l EXCEPT !.t0 = l.t] ELSE [l EXCEPT !.t1 = l.t]

\* The value the closure returns after the search.
ReturnValue(l) == l.point_at_t.y

\* bezier(x1, y1, x2, y2)
BezierBuild ==
    /\ res = None
    /\ res' = IF ControlPointsInvalid(arg.x1, arg.y1, arg.x2, arg.y2)
              THEN Some([pc |-> "Err"])
              ELSE Some([pc |-> "Ok"])
    /\ UNCHANGED <<arg, registryVars, cfgVars>>

\* The inputs the curve is called on.
Inputs ==
    { Zero(0), One, Ratio(1, 1000), Ratio(1, 10), Ratio(1, 2), Ratio(9, 10),
      F32(0, 126, 8388607) }

\* The curve has been built and is not running.
CurveIdle == res # None /\ res[1].pc \in {"Ok", "returned"}

\* A call of the curve on x that takes the linear shortcut.
CurveLinear(x) ==
    /\ CurveIdle
    /\ IsLinear(arg.x1, arg.y1, arg.x2, arg.y2)
    /\ res' = Some([pc |-> "returned", x |-> x, evaluated |-> <<>>, ret |-> x])
    /\ UNCHANGED <<arg, registryVars, cfgVars>>

\* A call on x == 0.0 or x == 1.0.
CurveBoundary(x) ==
    /\ CurveIdle
    /\ ~IsLinear(arg.x1, arg.y1, arg.x2, arg.y2)
    /\ Eq(x, Zero(0)) \/ Eq(x, One)
    /\ res' = Some([pc |-> "returned", x |-> x, evaluated |-> <<>>, ret |-> x])
    /\ UNCHANGED <<arg, registryVars, cfgVars>>

\* Any other call: the locals before the loop. evaluated lists the values
\* of t the curve was evaluated at, in order.
CurveSearch(x) ==
    /\ CurveIdle
    /\ ~IsLinear(arg.x1, arg.y1, arg.x2, arg.y2)
    /\ ~(Eq(x, Zero(0)) \/ Eq(x, One))
    /\ res' = Some([pc |-> "loop", x |-> x, i |-> 0, t0 |-> Zero(0), t1 |-> One,
                    t |-> x, point_at_t |-> Point(Zero(0), Zero(0)),
                    evaluated |-> <<>>])
    /\ UNCHANGED <<arg, registryVars, cfgVars>>

\* One turn of the loop: de_casteljau at t, then the break or the new t.
SearchIterate ==
    /\ InCall("loop")
    /\ res[1].i < SUBDIVISION_MAX_ITERATIONS
    /\ LET l   == res[1]
           p_i == Point(Zero(0), Zero(0))
           p1  == Point(arg.x1, arg.y1)
           p2  == Point(arg.x2, arg.y2)
           p_f == Point(One, One)
       IN \E q1 \in {lerp(l.t, p_i, p1)} : \E q2 \in {lerp(l.t, p1, p2)} :
          \E q3 \in {lerp(l.t, p2, p_f)} :
          \E r1 \in {lerp(l.t, q1, q2)} : \E r2 \in {lerp(l.t, q2, q3)} :
          \E point \in {lerp(l.t, r1, r2)} :
          \E error \in {Sub(l.x, point.x)} :
          \E at \in {[l EXCEPT !.point_at_t = point,
                               !.evaluated = Append(@, l.t)]} :
          \E n \in {Narrow(at, error)} :
             res' = IF Lt(abs(error), SUBDIVISION_PRECISION)
                    THEN Some([at EXCEPT !.pc = "break"])
                    ELSE Some([n EXCEPT !.t = Div(Add(n.t0, n.t1), FromNat(2)),
                                        !.i = at.i + 1])
    /\ UNCHANGED <<arg, registryVars, cfgVars>>

\* After the break or the last turn: point_at_t.y
CurveReturn ==
    /\ \/ InCall("break")
       \/ InCall("loop") /\ res[1].i = SUBDIVISION_MAX_ITERATIONS
    /\ res' = Some([pc |-> "returned", x |-> res[1].x,
                    evaluated |-> res[1].evaluated, ret |-> ReturnValue(res[1])])
    /\ UNCHANGED <<arg, registryVars, cfgVars>>

NextBezier ==
    \/ BezierBuild
    \/ \E x \in Inputs : CurveLinear(x)
    \/ \E x \in Inputs : CurveBoundary(x)
    \/ \E x \in Inputs : CurveSearch(x)
    \/ SearchIterate
    \/ CurveReturn

\* de_casteljau
de_casteljau(t, p_i, p1, p2, p_f) ==
    LET q1 == lerp(t, p_i, p1)
        q2 == lerp(t, p1, p2)
        q3 == lerp(t, p2, p_f)
        r1 == lerp(t, q1, q2)
        r2 == lerp(t, q2, q3)
    IN lerp(t, r1, r2)

\* The values the control points take in the model: in range, just out of
\* range, far out of range, and not numbers.
XValues ==
    { Zero(0), Zero(1), Ratio(1, 4), Ratio(3, 4), One,
      F32(0, 127, 1), F32(1, 1, 0), Neg(Ratio(1, 4)), NAN, INFINITY(0) }

YValues == { Zero(0), Ratio(1, 4), One, Ratio(3, 2), NAN }

InitBezier ==
    /\ BORDERS = <<>>
    /\ bordersLock = {}
    /\ CONFIG = [rules |-> [w \in Windows |-> DefaultRule], global |-> DefaultGlobal]
    /\ INITIAL_WINDOWS = {1}
    /\ threads = [t \in Tids |-> NoThread]
    /\ calls = <<>>
    /\ hook = [pc |-> "idle", w |-> 0, found |-> None]
    /\ last_show = NoShow
    /\ queue = [h \in Handles |-> <<>>]
    /\ nextHandle = 1
    /\ arg \in [x1 : XValues, y1 : YValues, x2 : XValues, y2 : YValues]
    /\ res = None

SpecBezier == InitBezier /\ [][NextBezier]_vars

(***************************************************************************)
(* Claims about the easing curve.                                          *)
(***************************************************************************)
\* x is a number of the interval [0, 1].
InUnitInterval(x) ==
    /\ ~is_nan(x)
    /\ IsZero(x) \/ (x.s = 0 /\ Mag(x) <= Mag(One))

\* C16: bezier returns Err(InvalidControlPoint) exactly when x1 or x2 lies
\* outside [0, 1], and a curve for every other input, whatever y1 and y2.
C16_InvalidControlPoint ==
    res # None =>
        /\ res[1].pc = "Err" <=> (~InUnitInterval(arg.x1) \/ ~InUnitInterval(arg.x2))
        /\ res[1].pc # "Err" => res[1].pc \in {"Ok", "loop", "break", "returned"}

\* bezier refused control points of which x2 and y1 are out of range, x1 not.
C16_Witness ==
    /\ res # None
    /\ res[1].pc = "Err"
    /\ InUnitInterval(arg.x1) /\ ~InUnitInterval(arg.x2)
    /\ ~InUnitInterval(arg.y1)

\* The curve has returned from a call.
CurveReturned == res # None /\ res[1].pc = "returned"

\* C17 as stated: when the two control points coincide, (x1, y1) == (x2, y2),
\* the curve returns exactly x, without evaluating the curve.
C17_CoincidentIsLinear ==
    (CurveReturned /\ Eq(arg.x1, arg.x2) /\ Eq(arg.y1, arg.y2)) =>
        /\ res[1].ret = res[1].x
        /\ res[1].evaluated = <<>>

\* C17 amended: when both control points lie on the diagonal, x1 == y1 and
\* x2 == y2, the curve returns exactly x, without evaluating the curve.
C17_DiagonalIsLinear ==
    (CurveReturned /\ Eq(arg.x1, arg.y1) /\ Eq(arg.x2, arg.y2)) =>
        /\ res[1].ret = res[1].x
        /\ res[1].evaluated = <<>>

\* A curve with two different control points on the diagonal returned 0.5
\* for 0.5 without a search.
C17_Witness ==
    /\ CurveReturned
    /\ Eq(arg.x1, arg.y1) /\ Eq(arg.x2, arg.y2) /\ ~Eq(arg.x1, arg.x2)
    /\ res[1].x = Half
    /\ res[1].ret = Half
    /\ res[1].evaluated = <<>>

\* The point of the curve at t, and the x-residual there.
CurveAt(t) ==
    de_casteljau(t, Point(Zero(0), Zero(0)), Point(arg.x1, arg.y1),
                 Point(arg.x2, arg.y2), Point(One, One))

Residual(t) == abs(Sub(res[1].x, CurveAt(t).x))

Converged(t) == Lt(Residual(t), SUBDIVISION_PRECISION)

\* The last value of t the curve was evaluated at.
LastEvaluated(l) == l.evaluated[Len(l.evaluated)]

C18_State ==
    /\ (res # None /\ res[1].pc \in {"loop", "break"}) =>
          LET l == res[1]
          IN /\ l.i <= SUBDIVISION_MAX_ITERATIONS
             /\ Len(l.evaluated) <= SUBDIVISION_MAX_ITERATIONS
             /\ l.pc = "loop" =>
                   /\ Len(l.evaluated) = l.i
                   /\ l.evaluated # <<>> => ~Converged(LastEvaluated(l))
             /\ l.pc = "break" => Converged(LastEvaluated(l))
             /\ Le(Zero(0), l.t0) /\ Le(l.t0, l.t) /\ Le(l.t, l.t1) /\ Le(l.t1, One)
             /\ Le(CurveAt(l.t0).x, l.x) /\ Le(l.x, CurveAt(l.t1).x)
    /\ (CurveReturned /\ res[1].evaluated # <<>>) =>
          /\ Len(res[1].evaluated) <= SUBDIVISION_MAX_ITERATIONS
          /\ Len(res[1].evaluated) < SUBDIVISION_MAX_ITERATIONS =>
                Converged(LastEvaluated(res[1]))
          /\ res[1].ret = CurveAt(LastEvaluated(res[1])).y

\* Every turn of the loop evaluates the curve once, at the current t, and
\* either leaves the loop or counts one more turn; the loop is left without
\* an evaluation only after the tenth turn.
C18_Step ==
    (res # None /\ res[1].pc = "loop" /\ res' # res) =>
        \/ /\ res'[1].pc = "returned"
           /\ res[1].i = SUBDIVISION_MAX_ITERATIONS
        \/ /\ res'[1].pc \in {"loop", "break"}
           /\ res'[1].evaluated = Append(res[1].evaluated, res[1].t)
           /\ res'[1].pc = "loop" => res'[1].i = res[1].i + 1

Mutexes == {"CONFIG", "INITIAL_WINDOWS", "BORDERS"}

\* Number of threads that run at the same time.
MaxWorkers == 2

LockWorkers == 1..MaxWorkers

\* The mutexes thread t holds.
Held(t) == {m \in Mutexes : res.holder[m] = Some(t)}

\* Where a thread is about to call lock(), and on which mutex.
Requested(kind, pc) ==
    CASE kind = "create" /\ pc = "get_window_rule" -> Some("CONFIG")
      [] kind = "create" /\ pc = "lock_config" -> Some("CONFIG")
      [] kind = "create" /\ pc = "lock_initial_windows" -> Some("INITIAL_WINDOWS")
      [] kind = "create" /\ pc = "lock_borders" -> Some("BORDERS")
      [] kind = "destroy" /\ pc = "lock_borders" -> Some("BORDERS")
      [] kind \in {"show", "hide"} /\ pc = "get_border" -> Some("BORDERS")
      [] OTHER -> None

\* The statement after a lock().unwrap() that returned the guard.
AfterLock(kind, pc) ==
    CASE kind = "create" /\ pc = "get_window_rule" -> "rule_loop"
      [] kind = "create" /\ pc = "lock_config" -> "lock_initial_windows"
      [] kind = "create" /\ pc = "lock_initial_windows" -> "contains"
      [] kind = "create" /\ pc = "lock_borders" -> "contains_key"
      [] kind = "destroy" /\ pc = "lock_borders" -> "get"
      [] kind \in {"show", "hide"} /\ pc = "get_border" -> "get"

\* The guards of t are dropped: the mutexes of ms are free again.
drop(holder, t, ms) ==
    [m \in Mutexes |-> IF m \in ms /\ holder[m] = Some(t) THEN None ELSE holder[m]]

\* m.lock().unwrap(): blocks until m is free and takes it. From a poisoned
\* mutex lock() returns Err with the guard inside, and unwrap() panics.
Lock(t) ==
    /\ Requested(res.worker[t].kind, res.worker[t].pc) # None
    /\ LET m == Requested(res.worker[t].kind, res.worker[t].pc)[1]
       IN /\ res.holder[m] = None
          /\ res' = [res EXCEPT
                       !.holder[m] = Some(t),
                       !.worker[t].pc =
                           IF m \in res.poisoned
                           THEN "unwrap"
                           ELSE AfterLock(res.worker[t].kind, res.worker[t].pc)]
    /\ UNCHANGED <<arg, registryVars, cfgVars>>

\* A panic unwinds the thread: its guards are dropped, and a guard dropped
\* while panicking poisons its mutex.
Unwind(t) ==
    [res EXCEPT !.holder = drop(res.holder, t, Mutexes),
                !.poisoned = @ \cup Held(t),
                !.worker[t].pc = "panicked"]

\* unwrap() on the Err of a poisoned mutex.
UnwrapPanics(t) ==
    /\ res.worker[t].pc = "unwrap"
    /\ res' = Unwind(t)
    /\ UNCHANGED <<arg, registryVars, cfgVars>>

\* get_window_rule under the CONFIG lock, and the enabled check of the
\* caller: the regex panics, or a rule is returned (the guard goes out of
\* scope), or no rule matches (drop(config)); a rule with enabled ==
\* Some(false) ends the thread.
RuleLoop(t) ==
    /\ res.worker[t].pc = "rule_loop"
    /\ LET outcome == arg.rule[res.worker[t].w]
       IN res' = IF outcome = "panic"
                 THEN Unwind(t)
                 ELSE [res EXCEPT
                         !.holder = drop(res.holder, t, {"CONFIG"}),
                         !.worker[t].pc = IF outcome = "disabled"
                                          THEN "returned" ELSE "lock_config"]
    /\ UNCHANGED <<arg, registryVars, cfgVars>>

\* INITIAL_WINDOWS.lock().unwrap().contains(..): the guard is a temporary of
\* the if condition and is dropped when the condition has been evaluated.
ContainsInitial(t) ==
    /\ res.worker[t].pc = "contains"
    /\ res' = [res EXCEPT !.holder = drop(res.holder, t, {"INITIAL_WINDOWS"}),
                          !.worker[t].pc = "drop_config"]
    /\ UNCHANGED <<arg, registryVars, cfgVars>>

\* A variant that goes on to BORDERS with the CONFIG guard still alive.
DropConfigKept(t) ==
    /\ res.worker[t].pc = "drop_config"
    /\ res' = [res EXCEPT !.worker[t].pc = "lock_borders"]
    /\ UNCHANGED <<arg, registryVars, cfgVars>>

\* The delays and the WindowBorder value, then drop(config).
DropConfig(t) ==
    /\ res.worker[t].pc = "drop_config"
    /\ res' = [res EXCEPT !.holder = drop(res.holder, t, {"CONFIG"}),
                          !.worker[t].pc = "lock_borders"]
    /\ UNCHANGED <<arg, registryVars, cfgVars>>

\* Under the BORDERS lock: contains_key with its early return, or
\* create_border_window, insert and drop(borders_hashmap); the thread then
\* runs border.init.
CreateInsert(t) ==
    /\ res.worker[t].kind = "create"
    /\ res.worker[t].pc = "contains_key"
    /\ res' = [res EXCEPT
                 !.holder = drop(res.holder, t, {"BORDERS"}),
                 !.borders = @ \cup {res.worker[t].w},
                 !.worker[t].pc = IF res.worker[t].w \in res.borders
                                  THEN "returned" ELSE "init"]
    /\ UNCHANGED <<arg, registryVars, cfgVars>>

\* destroy_border_for_window under the BORDERS lock: get with its early
\* return, or PostMessageW, remove and drop(borders_hashmap).
DestroyRemove(t) ==
    /\ res.worker[t].kind = "destroy"
    /\ res.worker[t].pc = "get"
    /\ res' = [res EXCEPT !.holder = drop(res.holder, t, {"BORDERS"}),
                          !.borders = @ \ {res.worker[t].w},
                          !.worker[t].pc = "returned"]
    /\ UNCHANGED <<arg, registryVars, cfgVars>>

\* get_border_from_window under the BORDERS lock: get and drop(borders) on
\* either path. hide_border_for_window then posts or not and returns.
HideGet(t) ==
    /\ res.worker[t].kind = "hide"
    /\ res.worker[t].pc = "get"
    /\ res' = [res EXCEPT !.holder = drop(res.holder, t, {"BORDERS"}),
                          !.worker[t].pc = "returned"]
    /\ UNCHANGED <<arg, registryVars, cfgVars>>

\* The same in show_border_for_window, which runs on the calling thread:
\* with a border it posts and returns; without one it returns, and if the
\* window is visible, not cloaked and not filtered it has spawned the thread
\* of create_border_for_window, which goes on here.
ShowGet(t) ==
    /\ res.worker[t].kind = "show"
    /\ res.worker[t].pc = "get"
    /\ \E creates \in IF res.worker[t].w \in res.borders THEN {FALSE} ELSE BOOLEAN :
          res' = [res EXCEPT
                    !.holder = drop(res.holder, t, {"BORDERS"}),
                    !.worker[t].kind = IF creates THEN "create" ELSE "show",
                    !.worker[t].pc = IF creates THEN "get_window_rule"
                                     ELSE "returned"]
    /\ UNCHANGED <<arg, registryVars, cfgVars>>

\* The steps of thread t.
WorkerStep(t) ==
    \/ Lock(t)
    \/ UnwrapPanics(t)
    \/ RuleLoop(t)
    \/ ContainsInitial(t)
    \/ DropConfig(t)
    \/ CreateInsert(t)
    \/ DestroyRemove(t)
    \/ HideGet(t)
    \/ ShowGet(t)

NextLock == \E t \in LockWorkers : WorkerStep(t)

\* The first statement of each kind of thread.
FirstPc(kind) ==
    CASE kind = "create" -> "get_window_rule"
      [] kind = "destroy" -> "lock_borders"
      [] kind \in {"show", "hide"} -> "get_border"

\* What the loop of get_window_rule comes to for window 1 and for window 2:
\* no rule matches ("default"), a rule matches and is returned, with enabled
\* unset or Some(false) ("enabled", "disabled"), or
\* Regex::new(pattern).unwrap() panics on a pattern that is no regular
\* expression ("panic").
Rules ==
    { [w \in Windows |-> IF w = 1 THEN o[1] ELSE o[2]] :
        o \in { <<"default", "panic">>, <<"enabled", "disabled">>,
                <<"panic", "enabled">>, <<"disabled", "default">> } }

\* The threads the model starts with: every choice of operation and window.
Operations == {"create", "destroy", "show", "hide"}

InitLock ==
    /\ BORDERS = <<>>
    /\ bordersLock = {}
    /\ CONFIG = [rules |-> [w \in Windows |-> DefaultRule], global |-> DefaultGlobal]
    /\ INITIAL_WINDOWS = {1}
    /\ threads = [t \in Tids |-> NoThread]
    /\ calls = <<>>
    /\ hook = [pc |-> "idle", w |-> 0, found |-> None]
    /\ last_show = NoShow
    /\ queue = [h \in Handles |-> <<>>]
    /\ nextHandle = 1
    /\ arg \in [rule : Rules]
    /\ \E op \in [LockWorkers -> Operations \X Windows] :
          res = [worker |-> [t \in LockWorkers |->
                               [kind |-> op[t][1], w |-> op[t][2],
                                pc |-> FirstPc(op[t][1])]],
                 holder |-> [m \in Mutexes |-> None],
                 poisoned |-> {},
                 borders |-> {}]

SpecLock == InitLock /\ [][NextLock]_vars

\* Every thread that can take a step is scheduled in the end.
SpecLockFair == SpecLock /\ \A t \in LockWorkers : WF_vars(WorkerStep(t))

(***************************************************************************)
(* Claims about the locks.                                                 *)
(***************************************************************************)
\* The thread has returned, has panicked, or runs its border.
Finished(t) == res.worker[t].pc \in {"returned", "panicked", "init"}

\* Thread t is blocked in lock() on m.
Requests(t, m) ==
    /\ Requested(res.worker[t].kind, res.worker[t].pc) = Some(m)

Holds(t, m) == res.holder[m] = Some(t)

\* Thread t can take a step: it is not finished, and if it is about to lock
\* a mutex, the mutex is free.
CanStep(t) ==
    /\ ~Finished(t)
    /\ \A m \in Mutexes : Requests(t, m) => res.holder[m] = None

C19_LockDiscipline ==
    /\ \A t \in LockWorkers :
          /\ ~(Holds(t, "CONFIG") /\ Holds(t, "BORDERS"))
          /\ Holds(t, "INITIAL_WINDOWS") =>
                /\ Holds(t, "CONFIG")
                /\ Held(t) = {"CONFIG", "INITIAL_WINDOWS"}
                /\ Requested(res.worker[t].kind, res.worker[t].pc) = None
          /\ Finished(t) => Held(t) = {}
    /\ (\E t \in LockWorkers : ~Finished(t)) => (\E t \in LockWorkers : CanStep(t))

\* A thread that holds INITIAL_WINDOWS releases it with its next step.
C19_Brief ==
    \A t \in LockWorkers :
        (Holds(t, "INITIAL_WINDOWS") /\ res'.worker[t] # res.worker[t]) =>
            res'.holder["INITIAL_WINDOWS"] = None

C19_Obtains ==
    \A t \in LockWorkers : \A m \in Mutexes : Requests(t, m) ~> Holds(t, m)

\* C19: no interleaving of the threads deadlocks on the locks: no thread
\* holds CONFIG and BORDERS together; INITIAL_WINDOWS is held only briefly,
\* under CONFIG, and nothing is locked while it is held; a finished thread
\* holds no lock; and every thread that requests a lock obtains it.
C19_NoDeadlock ==
    /\ [](C19_LockDiscipline)
    /\ [][C19_Brief]_vars
    /\ C19_Obtains

\* One thread holds CONFIG and INITIAL_WINDOWS while a second is blocked in
\* CONFIG.lock().
C19_Witness ==
    \E t1, t2 \in LockWorkers :
        /\ Holds(t1, "CONFIG") /\ Holds(t1, "INITIAL_WINDOWS")
        /\ Requests(t2, "CONFIG")

====
